---- MODULE Spec2Model ----
(***************************************************************************)
(* Request rendering pipeline of the production dispatch shell (class App) *)
(* and its error fallback: App.render, App.#renderError and                *)
(* App.#mergeResponses of core/app/index.ts, with the Pipeline's           *)
(* middleware slot of core/pipeline.ts.                                    *)
(***************************************************************************)
EXTENDS Integers, Sequences, FiniteSets, TLC

VARIABLES
    merge,            \* arguments and result of one #mergeResponses call
    manifest,         \* App.#manifest / #manifestData: the compiled route table
    onRequest,        \* Pipeline.#onRequest: the shared middleware slot
    hooks,            \* Pipeline.#hooks.before: registered pre-render hooks
    warningShown,     \* App.#renderOptionsDeprecationWarningShown
    served,           \* number of render calls started on this App
    pc,               \* position of the in-flight render call
    req,              \* the render call's arguments after normalisation
    routeData,        \* render's local routeData
    mod,              \* the module loaded for the route being rendered
    running,          \* the middleware the current renderRoute was started with
    primary,          \* outcome of the primary renderRoute (render's local response)
    errorArgs,        \* {status, response, skipMiddleware} of the active #renderError
    result,           \* how the render call settled
    trace,            \* operations performed for the in-flight call, in order
    logged,           \* what #logger.error was given for the in-flight call
    warnings,         \* number of deprecation warnings given to #logger.warn
    flights,          \* concurrent render calls on one App: each call's position
    pipe,             \* one Pipeline.renderRoute invocation, step by step
    helper,           \* arguments and result of one call of a route helper
    router,           \* one call of the route matcher or of the route search
    history,          \* repeated render calls: what was decided and answered so far
    dev               \* one request in the dev server's handler, step by step

appVars == <<manifest, onRequest, hooks, warningShown, served, pc, req, routeData,
             mod, running, primary, errorArgs, result, trace, logged, warnings>>
componentVars == <<flights, pipe, helper, router, history, dev>>
vars == <<merge, flights, pipe, helper, router, history, dev, manifest, onRequest, hooks, warningShown, served, pc, req, routeData,
          mod, running, primary, errorArgs, result, trace, logged, warnings>>

RECURSIVE Count(_, _)
Count(seq, x) ==
    IF seq = <<>> THEN 0
    ELSE (IF Head(seq) = x THEN 1 ELSE 0) + Count(Tail(seq), x)

\* The position of the first x in seq, 0 when there is none.
RECURSIVE First(_, _, _)
First(seq, x, i) ==
    IF i > Len(seq) THEN 0 ELSE IF seq[i] = x THEN i ELSE First(seq, x, i + 1)

\* An optional value (T | undefined) is the empty set or a singleton.
None == {}
Some(x) == {x}
The(o) == CHOOSE x \in o : TRUE

(***************************************************************************)
(* Headers.  A Headers object maps a lower-cased name to the list of       *)
(* values appended under it; get(name) is that list joined with ", " (the  *)
(* empty list reads as null).                                              *)
(***************************************************************************)
HeaderNames == {"content-type", "location", "x-astro-response", "x-custom"}
\* The names in the order Headers iteration yields them (sorted).
HeaderOrder == <<"content-type", "location", "x-astro-response", "x-custom">>
EmptyHeaders == [n \in HeaderNames |-> <<>>]

HeadersGet(h, name) == h[name]
HeadersAppend(h, name, value) == [h EXCEPT ![name] = @ \o value]
HeadersDelete(h, name) == [h EXCEPT ![name] = <<>>]

\* Array.from(headers): one [name, combined value] pair per name present, sorted.
RECURSIVE EntriesFrom(_, _)
EntriesFrom(h, i) ==
    IF i > Len(HeaderOrder) THEN <<>>
    ELSE (IF h[HeaderOrder[i]] = <<>> THEN <<>>
          ELSE << <<HeaderOrder[i], h[HeaderOrder[i]]>> >>) \o EntriesFrom(h, i + 1)
HeadersEntries(h) == EntriesFrom(h, 1)

\* new Headers(pairs): every pair is appended, in order.
RECURSIVE NewHeaders(_)
NewHeaders(pairs) ==
    IF pairs = <<>> THEN EmptyHeaders
    ELSE LET last == pairs[Len(pairs)]
         IN  HeadersAppend(NewHeaders(SubSeq(pairs, 1, Len(pairs) - 1)), last[1], last[2])

(***************************************************************************)
(* Responses.  immutable: the headers guard of a Response that came from   *)
(* fetch(); delete() on such headers throws.  sent: responseSentSymbol.    *)
(***************************************************************************)
Response(status, statusText, body, headers) ==
    [status |-> status, statusText |-> statusText, body |-> body,
     headers |-> headers, immutable |-> FALSE, sent |-> FALSE]

\* A bug variant of mergeResponses: the new response's status always wins.
mergeResponsesNewStatus(newResponse, originalResponse, override) ==
    IF originalResponse = None
    THEN newResponse
    ELSE LET original == The(originalResponse)
         IN  Response(newResponse.status, newResponse.statusText, newResponse.body,
                      NewHeaders(HeadersEntries(newResponse.headers)
                                 \o HeadersEntries(HeadersDelete(original.headers, "content-type"))))

\* A bug variant of mergeResponses: the original's body and content-type are kept.
mergeResponsesKeepOriginal(newResponse, originalResponse, override) ==
    IF originalResponse = None
    THEN IF override # None
         THEN Response(The(override), newResponse.statusText, newResponse.body,
                       newResponse.headers)
         ELSE newResponse
    ELSE LET original == The(originalResponse)
             status == IF override # None THEN The(override)
                       ELSE IF original.status = 200 THEN newResponse.status
                       ELSE original.status
         IN  Response(status, original.statusText, original.body,
                      NewHeaders(HeadersEntries(newResponse.headers)
                                 \o HeadersEntries(original.headers)))

mergeResponses(newResponse, originalResponse, override) ==
    IF originalResponse = None
    THEN IF override # None
         THEN Response(The(override), newResponse.statusText, newResponse.body,
                       newResponse.headers)
         ELSE newResponse
    ELSE LET original == The(originalResponse)
             status == IF override # None THEN The(override)
                       ELSE IF original.status = 200 THEN newResponse.status
                       ELSE original.status
             \* try { originalResponse.headers.delete('Content-type') } catch {}
             originalHeaders == IF original.immutable THEN original.headers
                                ELSE HeadersDelete(original.headers, "content-type")
         IN  Response(status,
                      IF status = 200 THEN newResponse.statusText ELSE original.statusText,
                      newResponse.body,
                      NewHeaders(HeadersEntries(newResponse.headers)
                                 \o HeadersEntries(originalHeaders)))


(***************************************************************************)
(* The route table.  A RouteData is a record; pattern.test(pathname) of a  *)
(* static route holds exactly for its own path.  fallbackRoutes is the set *)
(* of paths matched by the route's fallback routes.  redirectRoute is the  *)
(* optional RouteData a redirect points to, reduced to its redirect status *)
(* (Some(status) when its redirect config is an object).                   *)
(***************************************************************************)
RouteData(route, type, prerender, fallbackRoutes) ==
    [route |-> route, type |-> type, prerender |-> prerender,
     fallbackRoutes |-> fallbackRoutes, redirectRoute |-> None]

PageRoute == RouteData("/page", "page", FALSE, {"/es/page"})
RedirectRoute == RouteData("/redirect", "redirect", FALSE, {})
EndpointRoute == RouteData("/api", "endpoint", FALSE, {})
StaticRoute == RouteData("/static", "page", TRUE, {})
FallbackRoute == RouteData("/es/page", "fallback", FALSE, {})
ErrorRoute(status, prerender) ==
    RouteData(IF status = 404 THEN "/404" ELSE "/500", "page", prerender, {})

\* A prerendered catch-all page: the route found for /404 and /500 when the
\* table has no route of that path.
CatchAllRoute == RouteData("/[...astaticrest]", "page", TRUE, {})

ErrorRouteKinds == {"none", "dynamic", "prerendered"}
ErrorRoutes(status, kind) ==
    IF kind \in {"none", "catchAll"} THEN <<>>
    ELSE <<ErrorRoute(status, kind = "prerendered")>>
CatchAll(kind) == IF kind = "catchAll" THEN <<CatchAllRoute>> ELSE <<>>

\* manifest.assets
Assets == {"/favicon.ico"}

Manifest(k4, k5, i18n) ==
    [routes |-> <<PageRoute, RedirectRoute, EndpointRoute, StaticRoute>>
                \o ErrorRoutes(404, k4) \o ErrorRoutes(500, k5) \o CatchAll(k4),
     i18n |-> i18n]

Manifests ==
    {Manifest(k4, k5, i) : k4 \in ErrorRouteKinds \cup {"catchAll"},
                           k5 \in ErrorRouteKinds, i \in BOOLEAN}

\* A path as the string it is: its segments, and whether it ends with a
\* forward slash.
PathTable ==
    "/" :> [segments |-> <<>>, slash |-> TRUE]
    @@ "/page" :> [segments |-> <<"page">>, slash |-> FALSE]
    @@ "/redirect" :> [segments |-> <<"redirect">>, slash |-> FALSE]
    @@ "/api" :> [segments |-> <<"api">>, slash |-> FALSE]
    @@ "/static" :> [segments |-> <<"static">>, slash |-> FALSE]
    @@ "/es/page" :> [segments |-> <<"es", "page">>, slash |-> FALSE]
    @@ "/404" :> [segments |-> <<"404">>, slash |-> FALSE]
    @@ "/500" :> [segments |-> <<"500">>, slash |-> FALSE]
    @@ "/404/" :> [segments |-> <<"404">>, slash |-> TRUE]
    @@ "/500/" :> [segments |-> <<"500">>, slash |-> TRUE]
    @@ "/es/404" :> [segments |-> <<"es", "404">>, slash |-> FALSE]
    @@ "/blog/404" :> [segments |-> <<"blog", "404">>, slash |-> FALSE]
    @@ "/blog/500" :> [segments |-> <<"blog", "500">>, slash |-> FALSE]
    @@ "/page404" :> [segments |-> <<"page404">>, slash |-> FALSE]
    @@ "/missing" :> [segments |-> <<"missing">>, slash |-> FALSE]
    @@ "/other" :> [segments |-> <<"other">>, slash |-> FALSE]
    @@ "/unknown" :> [segments |-> <<"unknown">>, slash |-> FALSE]
    @@ "/favicon.ico" :> [segments |-> <<"favicon.ico">>, slash |-> FALSE]
    @@ "/page.html" :> [segments |-> <<"page.html">>, slash |-> FALSE]
    @@ "/nested" :> [segments |-> <<"nested">>, slash |-> FALSE]
    @@ "/nested/page" :> [segments |-> <<"nested", "page">>, slash |-> FALSE]
    @@ "/nested/a/b" :> [segments |-> <<"nested", "a", "b">>, slash |-> FALSE]
    @@ "/[astaticdynamic]" :> [segments |-> <<"[astaticdynamic]">>, slash |-> FALSE]
    @@ "/[xstaticdynamic]" :> [segments |-> <<"[xstaticdynamic]">>, slash |-> FALSE]
    @@ "/[serverdynamic]" :> [segments |-> <<"[serverdynamic]">>, slash |-> FALSE]
    @@ "/[...astaticrest]" :> [segments |-> <<"[...astaticrest]">>, slash |-> FALSE]
    @@ "/[...xstaticrest]" :> [segments |-> <<"[...xstaticrest]">>, slash |-> FALSE]
    @@ "/[...serverrest]" :> [segments |-> <<"[...serverrest]">>, slash |-> FALSE]
    @@ "/nested/[...astaticrest]" :> [segments |-> <<"nested", "[...astaticrest]">>, slash |-> FALSE]
    @@ "/nested/[...xstaticrest]" :> [segments |-> <<"nested", "[...xstaticrest]">>, slash |-> FALSE]
    @@ "/nested/[...serverrest]" :> [segments |-> <<"nested", "[...serverrest]">>, slash |-> FALSE]

Path(p) == PathTable[p]

\* The segments of a route path that are parameters: [name] takes exactly one
\* segment of the pathname, [...name] takes all that remain, none included.
DynamicSegments == {"[astaticdynamic]", "[xstaticdynamic]", "[serverdynamic]"}
RestSegments == {"[...astaticrest]", "[...xstaticrest]", "[...serverrest]"}

\* The compiled pattern of a route applied to the segments of a pathname.
RECURSIVE SegmentsMatch(_, _)
SegmentsMatch(pattern, segments) ==
    IF pattern = <<>> THEN segments = <<>>
    ELSE IF Head(pattern) \in RestSegments THEN TRUE
    ELSE /\ segments # <<>>
         /\ Head(pattern) \in DynamicSegments \/ Head(pattern) = Head(segments)
         /\ SegmentsMatch(Tail(pattern), Tail(segments))

\* route.pattern.test(pathname)
PatternTest(route, pathname) ==
    SegmentsMatch(Path(route.route).segments, Path(pathname).segments)

\* matchRoute of core/routing/match: the first route of the table that matches.
RECURSIVE MatchFrom(_, _, _)
MatchFrom(pathname, routes, i) ==
    IF i > Len(routes) THEN None
    ELSE IF PatternTest(routes[i], pathname) \/ pathname \in routes[i].fallbackRoutes
         THEN Some(routes[i])
         ELSE MatchFrom(pathname, routes, i + 1)
matchRoute(pathname, manifestData) == MatchFrom(pathname, manifestData.routes, 1)

\* A bug variant of App.match: prerendered routes are returned as well.
matchPrerendered(pathname, m) ==
    IF pathname \in Assets THEN None ELSE matchRoute(pathname, m)

\* App.match, for a site whose base is "/": removeBase followed by
\* prependForwardSlash then gives the pathname back.
match(pathname, m) ==
    IF pathname \in Assets THEN None
    ELSE LET found == matchRoute(pathname, m)
         IN  IF found = None \/ The(found).prerender THEN None ELSE found

STATUS_CODES == {404, 500}

\* removeTrailingForwardSlash of core/path
removeTrailingForwardSlash(path) == [path EXCEPT !.slash = FALSE]

\* String.prototype.endsWith('/' + segment)
endsWith(path, segment) ==
    /\ ~path.slash
    /\ path.segments # <<>>
    /\ path.segments[Len(path.segments)] = segment

\* A bug variant of getDefaultStatusCode: the fallback routes are not looked at.
getDefaultStatusCodeNoFallback(route, pathname) ==
    IF endsWith(removeTrailingForwardSlash(Path(route.route)), "404") THEN 404
    ELSE IF endsWith(removeTrailingForwardSlash(Path(route.route)), "500") THEN 500
    ELSE 200

\* App.#getDefaultStatusCode
getDefaultStatusCode(route, pathname) ==
    IF ~PatternTest(route, pathname) /\ pathname \in route.fallbackRoutes THEN 302
    ELSE IF endsWith(removeTrailingForwardSlash(Path(route.route)), "404") THEN 404
    ELSE IF endsWith(removeTrailingForwardSlash(Path(route.route)), "500") THEN 500
    ELSE 200

\* The redirect configuration of a route: none, a destination, or an object
\* with a destination and a status.
RedirectUndefined == [kind |-> "undefined"]
RedirectString(destination) == [kind |-> "string", destination |-> destination]
RedirectObject(destination, status) ==
    [kind |-> "object", destination |-> destination, status |-> status]

\* redirectRouteStatus of core/redirects/helpers.ts
redirectRouteStatus(redirectRoute, method) ==
    IF redirectRoute.redirectRoute # None
       /\ The(redirectRoute.redirectRoute).redirect.kind = "object"
    THEN The(redirectRoute.redirectRoute).redirect.status
    ELSE IF method # "GET" THEN 308
    ELSE 301


(***************************************************************************)
(* Pipeline.renderRoute.  What a render unit, an endpoint or a middleware  *)
(* handler does is the user's code: the operators below give the set of    *)
(* outcomes a call can have.  An outcome is a Response or a thrown error.  *)
(***************************************************************************)
Returned(response) == [kind |-> "response", response |-> Some(response)]
Threw(error, response) == [kind |-> error, response |-> response]

HtmlHeaders == [EmptyHeaders EXCEPT !["content-type"] = <<"text/html">>]
JsonHeaders == [EmptyHeaders EXCEPT !["content-type"] = <<"application/json">>]

\* Statuses a page sets itself (Astro.response.status, or a Response it returns).
PageStatuses == {200, 404, 500}
\* Statuses of a Response a middleware handler returns without calling next().
MiddlewareStatuses == {302, 500}
EndpointStatuses == {200, 404, 500}

\* The unit given to the render step: none, a module with a component as its
\* default export, or a module without one.
Units == {"undefined", "component", "noDefault"}

\* A bug variant of renderPage: the unit is looked at before the route type.
renderPageNeedsUnit(route, status, method, unit) ==
    IF unit # "component" THEN {Threw("Error", None)}
    ELSE IF route.type = "redirect"
    THEN {Returned(Response(redirectRouteStatus(route, method), "", "",
                            [EmptyHeaders EXCEPT !["location"] = <<"/page">>]))}
    ELSE IF route.type = "fallback"
    THEN {Returned(Response(404, "", "", EmptyHeaders))}
    ELSE {Returned(Response(status, "", route.route, HtmlHeaders))}

\* renderPage of core/render/core.ts
renderPage(route, status, method, unit) ==
    IF route.type = "redirect"
    THEN {Returned(Response(redirectRouteStatus(route, method), "", "",
                            [EmptyHeaders EXCEPT !["location"] = <<"/page">>]))}
    ELSE IF route.type = "fallback"
    THEN {Returned(Response(404, "", "", EmptyHeaders))}
    \* CantRenderPage, or no component to render
    ELSE IF unit # "component" THEN {Threw("Error", None)}
    ELSE {Threw("Error", None)}
         \cup {Returned(Response(s, "", route.route, HtmlHeaders)) :
                  s \in {status} \cup PageStatuses}
         \* a page that returns the Response of a fetch()
         \cup {Returned([Response(404, "", route.route, JsonHeaders)
                            EXCEPT !.immutable = TRUE])}

\* callEndpoint: the endpoint's own Response, or the 404 marked as not found
\* that stands for a missing handler (an endpoint can set the mark itself).
callEndpoint(route) ==
    {Threw("Error", None)}
    \cup {Returned(Response(s, "", route.route, JsonHeaders)) : s \in EndpointStatuses}
    \cup {Returned(Response(s, "", "",
                            [EmptyHeaders EXCEPT !["x-astro-response"] = <<"Not-Found">>])) :
             s \in EndpointStatuses}

\* The endpoint handler of the SSR pipeline.
endpointHandler(o) ==
    IF o.kind = "response" /\ The(o.response).headers["x-astro-response"] = <<"Not-Found">>
    THEN Threw("EndpointNotFoundError", o.response)
    ELSE o

\* One middleware handler around the outcomes of its continuation: it returns
\* next()'s response (as is, or after setting a header on it), returns a
\* Response of its own, or throws.
AroundHandler(inner) ==
    inner
    \cup {Returned([The(o.response) EXCEPT !.headers["x-custom"] = <<"1">>]) :
             o \in {i \in inner : i.kind = "response" /\ ~The(i.response).immutable}}
    \cup {Returned(Response(s, "", "middleware", EmptyHeaders)) : s \in MiddlewareStatuses}
    \cup {Threw("Error", None)}

RECURSIVE callMiddleware(_, _)
callMiddleware(chain, inner) ==
    IF chain = <<>> THEN inner
    ELSE AroundHandler(callMiddleware(Tail(chain), inner))

\* Pipeline.renderRoute with the middleware read from the slot when it started.
renderRoute(route, status, method, middleware) ==
    IF route.type = "endpoint"
    THEN {endpointHandler(o) : o \in callMiddleware(middleware, callEndpoint(route))}
    ELSE callMiddleware(middleware, renderPage(route, status, method, "component"))


(***************************************************************************)
(* App.render.  Render calls are served one after another on one App; a    *)
(* call is in flight from render until it settles (pc = "done").           *)
(***************************************************************************)
MaxRequests == 2

Pathnames == {"/page", "/es/page", "/redirect", "/api", "/static", "/missing",
              "/404", "/favicon.ico"}

\* The shapes of a render call: render(request), render(request, {routeData}),
\* render(request, {locals}), render(request, {}), and the deprecated positional
\* render(request, routeData) and render(request, undefined, locals).

\* The RouteData a caller passes: what match or the matcher gave it for the
\* request (possibly undefined), or the fallback route of the pathname.
GivenRoutes(pathname, m) ==
    {match(pathname, m), matchRoute(pathname, m)}
    \cup (IF pathname = FallbackRoute.route THEN {Some(FallbackRoute)} ELSE {})

RenderCalls(m) ==
    {[pathname |-> p, method |-> "GET", style |-> "none", routeData |-> None,
      locals |-> None] : p \in Pathnames}
    \cup {[pathname |-> "/redirect", method |-> "POST", style |-> "none",
           routeData |-> None, locals |-> None]}
    \cup {[pathname |-> p, method |-> "GET", style |-> "emptyOptions",
           routeData |-> None, locals |-> None] : p \in {"/page"}}
    \cup UNION {{[pathname |-> p, method |-> "GET", style |-> st, routeData |-> r,
                  locals |-> None] : r \in GivenRoutes(p, m), st \in {"options", "positional"}}
                : p \in Pathnames}
    \cup {[pathname |-> p, method |-> "GET", style |-> st, routeData |-> None,
           locals |-> Some("locals")] : p \in {"/page", "/missing"},
                                         st \in {"options", "positional"}}

NoRequest == [pathname |-> "", method |-> "", locals |-> "unset"]

Rejected(error) == [kind |-> "rejected", error |-> error, response |-> None]
Resolved(response) == [kind |-> "response", error |-> "", response |-> Some(response)]

RenderErrorOptions(status, response, skipMiddleware) ==
    [status |-> status, response |-> response, skipMiddleware |-> skipMiddleware]

\* The App after construction, before its first render call.
AppConstructed ==
    /\ onRequest = <<>>
    /\ hooks = 0
    /\ warningShown = FALSE
    /\ warnings = 0
    /\ served = 0
    /\ pc = "idle"
    /\ req = NoRequest
    /\ routeData = None
    /\ mod = None
    /\ running = <<>>
    /\ primary = None
    /\ errorArgs = None
    /\ result = None
    /\ trace = <<>>
    /\ logged = <<>>

\* render, lines 156-194: the arguments are normalised, the route is resolved and
\* the call either enters the 404 fallback or goes on to load the route's module.
renderStep(call) ==
    /\ pc = "idle"
    /\  LET positional == call.style \in {"positional", "emptyOptions"}
            \* an object without routeData and locals is taken for a RouteData
            given == IF call.style = "emptyOptions" THEN Some("{}") ELSE call.routeData
            warn == positional /\ (given # None \/ call.locals # None)
            resolved == IF given = None THEN match(call.pathname, manifest) ELSE given
            attached == IF call.locals = None THEN "{}" ELSE The(call.locals)
        IN  /\ served' = served + 1
            /\ warnings' = IF warn /\ ~warningShown THEN warnings + 1 ELSE warnings
            /\ warningShown' = (warningShown \/ warn)
            /\ mod' = None
            /\ running' = <<>>
            /\ primary' = None
            /\ logged' = <<>>
            /\ IF resolved = None
               THEN /\ req' = [pathname |-> call.pathname, method |-> call.method,
                               locals |-> "unset"]
                    /\ routeData' = None
                    /\ errorArgs' = Some(RenderErrorOptions(404, None, FALSE))
                    /\ result' = None
                    /\ trace' = <<"renderError">>
                    /\ pc' = "renderError"
               ELSE /\ req' = [pathname |-> call.pathname, method |-> call.method,
                               locals |-> attached]
                    /\ errorArgs' = None
                    /\ IF call.style = "emptyOptions"
                       THEN \* #getDefaultStatusCode reads routeData.pattern.exec
                            /\ routeData' = None
                            /\ result' = Some(Rejected("TypeError"))
                            /\ trace' = <<>>
                            /\ pc' = "done"
                       ELSE /\ routeData' = resolved
                            /\ result' = None
                            /\ trace' = <<"getModuleForRoute">>
                            /\ pc' = "load"
    /\ UNCHANGED <<manifest, onRequest, hooks>>

render ==
    /\ served < MaxRequests
    /\ \E call \in RenderCalls(manifest) : renderStep(call)
    /\ UNCHANGED <<merge, componentVars>>


(***************************************************************************)
(* Loading a route's module and building its render context:               *)
(* #getModuleForRoute, mod.page() and #createRenderContext each return or  *)
(* throw.  A loaded module exports a middleware (onRequest) or none.       *)
(***************************************************************************)
Loaded(hasOnRequest) == [threw |-> "", onRequest |-> hasOnRequest]
LoadThrew(where, hasOnRequest) == [threw |-> where, onRequest |-> hasOnRequest]

\* App.#getModuleForRoute, then mod.page() and #createRenderContext
LoadOutcomes(route) ==
    {Loaded(b) : b \in BOOLEAN}
    \cup {LoadThrew("createRenderContext", b) : b \in BOOLEAN}
    \cup (IF route.type = "redirect" THEN {}
          ELSE {LoadThrew("getModuleForRoute", FALSE)})

\* render, lines 209-225: the middleware slot as configured for the primary render
PrimaryMiddleware(m, route, module, slot) ==
    IF m.i18n
    THEN IF module.onRequest THEN <<"i18n", route.route>> ELSE <<"i18n">>
    ELSE IF module.onRequest THEN <<route.route>> ELSE slot

\* render, lines 195-226
loadModuleStep(o) ==
    /\ pc = "load"
    /\  IF o.threw # ""
        THEN /\ result' = Some(Rejected(o.threw))
             /\ pc' = "done"
             /\ UNCHANGED <<mod, onRequest, hooks, running, trace>>
        ELSE /\ mod' = Some(o)
             /\ onRequest' = PrimaryMiddleware(manifest, The(routeData), o, onRequest)
             /\ hooks' = IF manifest.i18n THEN hooks + 1 ELSE hooks
             /\ running' = onRequest'
             /\ trace' = trace \o <<"renderRoute">>
             /\ pc' = "renderRoute"
             /\ UNCHANGED result
    /\ UNCHANGED <<manifest, warningShown, warnings, served, req, routeData,
                   primary, errorArgs, logged>>

loadModule ==
    /\ pc = "load"
    /\ \E o \in LoadOutcomes(The(routeData)) : loadModuleStep(o)
    /\ UNCHANGED <<merge, componentVars>>

\* A bug variant of ErrorFallback: every thrown error is answered with a 404 that
\* merges whatever response the error carried, and nothing is told apart.
ErrorFallbackAll404(route, o) ==
    IF o.kind # "response"
    THEN Some(RenderErrorOptions(404, o.response, FALSE))
    ELSE IF route.type \in {"page", "redirect"} /\ The(o.response).status \in STATUS_CODES
         THEN Some(RenderErrorOptions(The(o.response).status, o.response, FALSE))
         ELSE None

\* A bug variant of ErrorFallback: a 404 or 500 of a page is returned as it is.
ErrorFallbackNoStatusCheck(route, o) ==
    IF o.kind = "EndpointNotFoundError"
    THEN Some(RenderErrorOptions(404, o.response, FALSE))
    ELSE IF o.kind = "Error"
    THEN Some(RenderErrorOptions(500, None, FALSE))
    ELSE None

\* A bug variant of ErrorFallback: a 404 or 500 of an endpoint goes to the error
\* page like that of a page.
ErrorFallbackAnyType(route, o) ==
    IF o.kind = "EndpointNotFoundError"
    THEN Some(RenderErrorOptions(404, o.response, FALSE))
    ELSE IF o.kind = "Error"
    THEN Some(RenderErrorOptions(500, None, FALSE))
    ELSE IF The(o.response).status \in STATUS_CODES
         THEN Some(RenderErrorOptions(The(o.response).status, o.response, FALSE))
         ELSE None

\* render, lines 227-246: the #renderError call the outcome of the primary
\* render leads to, or None when the response is returned.
ErrorFallback(route, o) ==
    IF o.kind = "EndpointNotFoundError"
    THEN Some(RenderErrorOptions(404, o.response, FALSE))
    ELSE IF o.kind = "Error"
    THEN Some(RenderErrorOptions(500, None, FALSE))
    ELSE IF route.type \in {"page", "redirect"} /\ The(o.response).status \in STATUS_CODES
         THEN Some(RenderErrorOptions(The(o.response).status, o.response, FALSE))
         ELSE None

\* render, lines 226-247: the primary renderRoute settles
renderRouteSettlesStep(o) ==
    /\ pc = "renderRoute"
    /\  LET fallback == ErrorFallback(The(routeData), o)
        IN  /\ primary' = Some(o)
            /\ logged' = IF o.kind = "Error" THEN Append(logged, "Error") ELSE logged
            /\ errorArgs' = fallback
            /\ IF fallback # None
               THEN /\ trace' = trace \o (IF o.kind = "Error" THEN <<"logger.error">> ELSE <<>>)
                                      \o <<"renderError">>
                    /\ pc' = "renderError"
                    /\ UNCHANGED result
               ELSE /\ result' = Some(Resolved(
                           IF The(routeData).type \in {"page", "redirect"}
                           THEN [The(o.response) EXCEPT !.sent = TRUE]
                           ELSE The(o.response)))
                    /\ pc' = "done"
                    /\ UNCHANGED trace
    /\ UNCHANGED <<manifest, onRequest, hooks, warningShown, warnings, served,
                   req, routeData, mod, running>>

renderRouteSettles ==
    /\ pc = "renderRoute"
    /\ \E o \in renderRoute(The(routeData),
                            getDefaultStatusCode(The(routeData), req.pathname),
                            req.method, running) : renderRouteSettlesStep(o)
    /\ UNCHANGED <<merge, componentVars>>


(***************************************************************************)
(* App.#renderError.  errorArgs holds the options of the active call; the  *)
(* retry without middleware is the recursive call of line 376.             *)
(***************************************************************************)
\* lines 336-337: the route of the error page for the status
errorRoutePath(status) == IF status = 404 THEN "/404" ELSE "/500"
errorRouteData(status, m) == matchRoute(errorRoutePath(status), m)

\* A bug variant of statusURL: .html is appended whatever the route.
statusURLAlwaysHtml(status, route) == IF status = 404 THEN "/404.html" ELSE "/500.html"

\* lines 341-346: what is fetched for a prerendered error route, on a site
\* whose base is "/"
statusURL(status, route) ==
    IF endsWith(Path(route.route), IF status = 404 THEN "404" ELSE "500")
    THEN IF status = 404 THEN "/404.html" ELSE "/500.html"
    ELSE IF status = 404 THEN "/404" ELSE "/500"

\* fetch(statusURL): the static document (served with 200, or missing), or a
\* network failure.
FetchStatuses == {200, 404}
fetch(url) ==
    {Threw("TypeError", None)}
    \cup {Returned([Response(s, "OK", url, HtmlHeaders) EXCEPT !.immutable = TRUE]) :
             s \in FetchStatuses}

\* A bug variant of Fabricated: the requested status is not passed on.
FabricatedDefaultStatus(a) ==
    [mergeResponses(Response(200, "", "", EmptyHeaders), a.response, None)
        EXCEPT !.sent = TRUE]

\* A bug variant of Fabricated: the original Response is left out.
FabricatedWithoutOriginal(a) ==
    [Response(a.status, "", "", EmptyHeaders) EXCEPT !.sent = TRUE]

\* lines 385-387: the fabricated bodyless response
Fabricated(a) ==
    [mergeResponses(Response(a.status, "", "", EmptyHeaders), a.response, None)
        EXCEPT !.sent = TRUE]

\* A bug variant of RetryWithoutMiddleware: a failed retry is retried once more.
RetryTwice(a, module) == module.onRequest /\ Count(trace, "renderError") < 3

\* A bug variant of RetryWithoutMiddleware: a failed error page is never retried.
RetryNever(a, module) == FALSE

\* A bug variant of RetryWithoutMiddleware: the catch clause retries whether or
\* not the failed render was already the one without middleware.
RetryAgain(a, module) == module.onRequest

\* lines 373-381: whether the catch clause calls #renderError again
RetryWithoutMiddleware(a, module) == a.skipMiddleware = FALSE /\ module.onRequest

\* lines 364-370: the middleware slot as configured for the render of the error page
ErrorMiddleware(a, route, module, slot) ==
    IF a.skipMiddleware = FALSE /\ module.onRequest THEN <<route.route>>
    ELSE IF a.skipMiddleware THEN <<>>
    ELSE slot

\* lines 373-387: the render of the error page threw
Caught(a, module) ==
    IF RetryWithoutMiddleware(a, module)
    THEN /\ errorArgs' = Some([a EXCEPT !.skipMiddleware = TRUE])
         /\ trace' = trace \o <<"catch", "renderError">>
         /\ pc' = "renderError"
         /\ UNCHANGED result
    ELSE /\ result' = Some(Resolved(Fabricated(a)))
         /\ trace' = trace \o <<"catch">>
         /\ pc' = "done"
         /\ UNCHANGED errorArgs

\* lines 336-339 and 385-387: no error route
renderErrorNoRouteStep ==
    /\ pc = "renderError"
    /\ errorRouteData(The(errorArgs).status, manifest) = None
    /\ result' = Some(Resolved(Fabricated(The(errorArgs))))
    /\ pc' = "done"
    /\ UNCHANGED <<manifest, onRequest, hooks, warningShown, warnings, served,
                   req, routeData, mod, running, primary, errorArgs, trace, logged>>

renderErrorNoRoute == renderErrorNoRouteStep /\ UNCHANGED <<merge, componentVars>>

\* lines 340-353: the error route is prerendered
renderErrorPrerenderedStep(o) ==
    /\ pc = "renderError"
    /\ errorRouteData(The(errorArgs).status, manifest) # None
    /\ The(errorRouteData(The(errorArgs).status, manifest)).prerender
    /\  result' = Some(IF o.kind # "response" THEN Rejected("fetch")
                       ELSE Resolved(mergeResponses(The(o.response),
                                                    The(errorArgs).response,
                                                    Some(The(errorArgs).status))))
    /\ trace' = trace \o <<"fetch">>
    /\ pc' = "done"
    /\ UNCHANGED <<manifest, onRequest, hooks, warningShown, warnings, served,
                   req, routeData, mod, running, primary, errorArgs, logged>>

\* the URL of line 341, when the error route is prerendered
errorPageURL ==
    statusURL(The(errorArgs).status, The(errorRouteData(The(errorArgs).status, manifest)))

renderErrorPrerendered ==
    /\ pc = "renderError"
    /\ errorRouteData(The(errorArgs).status, manifest) # None
    /\ \E o \in fetch(errorPageURL) : renderErrorPrerenderedStep(o)
    /\ UNCHANGED <<merge, componentVars>>

\* lines 354-371: the error route is rendered dynamically
renderErrorLoadStep(o) ==
    /\ pc = "renderError"
    /\ errorRouteData(The(errorArgs).status, manifest) # None
    /\ ~The(errorRouteData(The(errorArgs).status, manifest)).prerender
    /\  LET a == The(errorArgs)
            route == The(errorRouteData(a.status, manifest))
        IN  IF o.threw = "getModuleForRoute"
            THEN /\ result' = Some(Rejected(o.threw))
                 /\ pc' = "done"
                 /\ UNCHANGED <<mod, onRequest, running, errorArgs, trace>>
            ELSE IF o.threw # ""
            THEN /\ mod' = Some(o)
                 /\ Caught(a, o)
                 /\ UNCHANGED <<onRequest, running>>
            ELSE /\ mod' = Some(o)
                 /\ onRequest' = ErrorMiddleware(a, route, o, onRequest)
                 /\ running' = onRequest'
                 /\ trace' = trace \o <<IF a.skipMiddleware THEN "renderRoute(error, skipMiddleware)"
                                        ELSE "renderRoute(error)">>
                 /\ pc' = "errorRenderRoute"
                 /\ UNCHANGED <<result, errorArgs>>
    /\ UNCHANGED <<manifest, hooks, warningShown, warnings, served, req,
                   routeData, primary, logged>>

renderErrorLoad ==
    /\ pc = "renderError"
    /\ errorRouteData(The(errorArgs).status, manifest) # None
    /\ \E o \in LoadOutcomes(The(errorRouteData(The(errorArgs).status, manifest))) :
           renderErrorLoadStep(o)
    /\ UNCHANGED <<merge, componentVars>>

\* A bug variant of errorRenderRouteSettlesStep: the render without middleware
\* is started without waiting for the first render of the error page to throw.
errorRenderRouteSettlesStepEager(o) ==
    /\ pc = "errorRenderRoute"
    /\  IF RetryWithoutMiddleware(The(errorArgs), The(mod))
        THEN /\ errorArgs' = Some([The(errorArgs) EXCEPT !.skipMiddleware = TRUE])
             /\ trace' = trace \o <<"renderError">>
             /\ pc' = "renderError"
             /\ UNCHANGED result
        ELSE IF o.kind = "response"
        THEN /\ result' = Some(Resolved(mergeResponses(The(o.response),
                                                       The(errorArgs).response, None)))
             /\ pc' = "done"
             /\ UNCHANGED <<errorArgs, trace>>
        ELSE Caught(The(errorArgs), The(mod))
    /\ UNCHANGED <<manifest, onRequest, hooks, warningShown, warnings, served,
                   req, routeData, mod, running, primary, logged>>

\* lines 371-382: the renderRoute of the error page settles
errorRenderRouteSettlesStep(o) ==
    /\ pc = "errorRenderRoute"
    /\  IF o.kind = "response"
        THEN /\ result' = Some(Resolved(mergeResponses(The(o.response),
                                                       The(errorArgs).response, None)))
             /\ pc' = "done"
             /\ UNCHANGED <<errorArgs, trace>>
        ELSE Caught(The(errorArgs), The(mod))
    /\ UNCHANGED <<manifest, onRequest, hooks, warningShown, warnings, served,
                   req, routeData, mod, running, primary, logged>>

errorRenderRouteSettles ==
    /\ pc = "errorRenderRoute"
    /\ \E o \in renderRoute(The(errorRouteData(The(errorArgs).status, manifest)),
                            The(errorArgs).status, req.method, running) :
           errorRenderRouteSettlesStep(o)
    /\ UNCHANGED <<merge, componentVars>>

\* The promise returned by render has settled: the caller has the Response (or
\* the rejection) and the call's frame is gone.
settledStep ==
    /\ pc = "done"
    /\ pc' = "idle"
    /\ req' = NoRequest
    /\ routeData' = None
    /\ mod' = None
    /\ running' = <<>>
    /\ primary' = None
    /\ errorArgs' = None
    /\ result' = None
    /\ trace' = <<>>
    /\ logged' = <<>>
    /\ UNCHANGED <<manifest, onRequest, hooks, warningShown, warnings, served>>

settled == settledStep /\ UNCHANGED <<merge, componentVars>>

AppInit == manifest \in Manifests /\ AppConstructed

\* The variables of the other specifications, where they play no part.
NoFlights == <<>>
PipeIdle == [pc |-> "unused"]
HelperIdle == [fn |-> "none"]
RouterIdle == [op |-> "none"]
\* no request in the dev server's handler
DevIdle == [pc |-> "unused"]
HistoryIdle == [loaded |-> {}, rendered |-> {}, fetched |-> {}, answers |-> {}]
ComponentsIdle ==
    /\ flights = NoFlights /\ pipe = PipeIdle /\ helper = HelperIdle /\ router = RouterIdle
    /\ history = HistoryIdle
    /\ dev = DevIdle

MergeIdle == merge = [newResponse |-> Response(200, "", "", EmptyHeaders),
                      originalResponse |-> None, override |-> None, result |-> None]

Init == AppInit /\ MergeIdle /\ ComponentsIdle

Next ==
    \/ render
    \/ loadModule
    \/ renderRouteSettles
    \/ renderErrorNoRoute
    \/ renderErrorPrerendered
    \/ renderErrorLoad
    \/ errorRenderRouteSettles
    \/ settled

Spec == Init /\ [][Next]_vars

\* Every await of a render call settles: the unit, the middleware, the loader
\* and fetch return or throw.
FairSpec == Spec /\ WF_vars(Next)

(***************************************************************************)
(* #mergeResponses on its own: one call on arguments drawn from the        *)
(* responses an error page (new) and a primary render (original) can be.   *)
(***************************************************************************)
MergeStatuses == {200, 302, 404, 500}

MergeHeaders(contentType, custom) ==
    [EmptyHeaders EXCEPT !["content-type"] = contentType, !["x-custom"] = custom]

NewResponses ==
    {[status |-> s, statusText |-> "new", body |-> b, headers |-> MergeHeaders(ct, x),
      immutable |-> i, sent |-> FALSE] :
        s \in MergeStatuses, b \in {"", "error page"},
        ct \in {<<>>, <<"text/html">>}, x \in {<<>>, <<"new">>}, i \in BOOLEAN}

OriginalResponses ==
    {[status |-> s, statusText |-> "original", body |-> "page",
      headers |-> MergeHeaders(ct, x), immutable |-> i, sent |-> FALSE] :
        s \in MergeStatuses,
        ct \in {<<>>, <<"application/json">>}, x \in {<<>>, <<"original">>}, i \in BOOLEAN}

Overrides == {None} \cup {Some(s) : s \in STATUS_CODES}

MergeInit ==
    /\ merge \in [newResponse : NewResponses,
                  originalResponse : {None} \cup {Some(r) : r \in OriginalResponses},
                  override : Overrides,
                  result : {None}]
    /\ manifest = Manifest("none", "none", FALSE)
    /\ AppConstructed
    /\ ComponentsIdle

mergeCall ==
    /\ merge.result = None
    /\ merge' = [merge EXCEPT !.result =
                    Some(mergeResponses(merge.newResponse, merge.originalResponse,
                                        merge.override))]
    /\ UNCHANGED <<appVars, componentVars>>

SpecMerge == MergeInit /\ [][mergeCall]_vars


(***************************************************************************)
(* Properties of #mergeResponses (checked under SpecMerge).                *)
(***************************************************************************)
MergeCalled == merge.result # None
Merged == The(merge.result)
MergeOriginal == The(merge.originalResponse)

\* C1: without an original the result is new, its status replaced by
\* override.status when an override is given; with an original the status is
\* override.status if an override is given, else new.status if the original's
\* status is 200, else the original's status.  The body is always new's body.
C1_MergeStatusRule ==
    MergeCalled =>
        /\ Merged.body = merge.newResponse.body
        /\ merge.originalResponse = None =>
              IF merge.override = None
              THEN Merged = merge.newResponse
              ELSE /\ Merged.status = The(merge.override)
                   /\ Merged.headers = merge.newResponse.headers
                   /\ Merged.statusText = merge.newResponse.statusText
        /\ merge.originalResponse # None =>
              Merged.status = IF merge.override # None THEN The(merge.override)
                              ELSE IF MergeOriginal.status = 200
                                   THEN merge.newResponse.status
                                   ELSE MergeOriginal.status

\* C1 witness: an original with the default status 200 and no override took the
\* error page's 404, and a non-200 original kept its status elsewhere.
C1_Witness ==
    /\ MergeCalled
    /\ merge.originalResponse # None
    /\ merge.override = None
    /\ MergeOriginal.status = 200
    /\ merge.newResponse.status = 404
    /\ merge.newResponse.body = "error page"
    /\ Merged.status = 404

\* C2: with an original, every header name other than content-type that both
\* responses set reads, on the merged response, as the original's value alone;
\* a name only one of them sets reads as that one's value.
C2_OriginalTakesPrecedence ==
    (MergeCalled /\ merge.originalResponse # None) =>
        \A name \in HeaderNames \ {"content-type"} :
            HeadersGet(Merged.headers, name) =
                IF HeadersGet(MergeOriginal.headers, name) # <<>>
                THEN HeadersGet(MergeOriginal.headers, name)
                ELSE HeadersGet(merge.newResponse.headers, name)

\* C3: with an original, the merged content-type is exactly the error page's
\* content-type, and the original's x-custom is still present.
C3_ContentTypeIsErrorPages ==
    (MergeCalled /\ merge.originalResponse # None) =>
        /\ HeadersGet(Merged.headers, "content-type")
              = HeadersGet(merge.newResponse.headers, "content-type")
        /\ \A i \in 1..Len(HeadersGet(MergeOriginal.headers, "x-custom")) :
              \E j \in 1..Len(HeadersGet(Merged.headers, "x-custom")) :
                  HeadersGet(Merged.headers, "x-custom")[j]
                      = HeadersGet(MergeOriginal.headers, "x-custom")[i]


(***************************************************************************)
(* Properties of App.render and App.#renderError (checked under Spec).     *)
(***************************************************************************)
Done == pc = "done"
Returns == result # None /\ The(result).kind = "response"
Final == The(The(result).response)
\* render found no route and went straight to the 404 fallback (line 190)
NoMatch == routeData = None /\ errorArgs # None
ErrorRouteOf(a) == errorRouteData(a.status, manifest)
DynamicErrorRoute(a) == ErrorRouteOf(a) # None /\ ~The(ErrorRouteOf(a)).prerender
PrerenderedErrorRoute(a) == ErrorRouteOf(a) # None /\ The(ErrorRouteOf(a)).prerender
\* the last operation of the call was a renderRoute of the error page
ErrorPageRendered ==
    trace # <<>> /\ trace[Len(trace)] \in {"renderRoute(error)",
                                           "renderRoute(error, skipMiddleware)"}

\* C4 as stated: a request that matches no route gets a Response with status
\* 404, whose body is the one rendered by the /404 route when there is such a
\* route and empty when there is none (stated of the calls that return).
C4_NoMatchIs404 ==
    (Done /\ NoMatch /\ Returns) =>
        /\ Final.status = 404
        /\ Final.body = IF ErrorRouteOf(The(errorArgs)) = None THEN ""
                        ELSE IF The(ErrorRouteOf(The(errorArgs))).prerender
                             THEN statusURL(404, The(ErrorRouteOf(The(errorArgs))))
                             ELSE errorRoutePath(404)

\* C4 amended: a request that matches no route is answered by #renderError with
\* status 404 and no original.  Without a /404 route, or when the render of the
\* /404 page threw, the Response is bodyless with status 404; with a prerendered
\* /404 route it is the fetched document with status 404; otherwise it is the
\* Response the renderRoute of the /404 page produced, as it is, whatever its
\* status.  The call rejects only when loading the /404 module or fetch failed.
C4_NoMatchFallback ==
    NoMatch =>
        LET a == The(errorArgs)
        IN  /\ a.status = 404 /\ a.response = None
            /\ primary = None
            /\ (Done /\ ~Returns) =>
                  \/ PrerenderedErrorRoute(a) /\ The(result).error = "fetch"
                  \/ DynamicErrorRoute(a) /\ The(result).error = "getModuleForRoute"
            /\ (Done /\ Returns) =>
                  IF ErrorRouteOf(a) = None
                  THEN Final = [Response(404, "", "", EmptyHeaders) EXCEPT !.sent = TRUE]
                  ELSE IF PrerenderedErrorRoute(a)
                  THEN Final.status = 404
                       /\ Final.body = statusURL(404, The(ErrorRouteOf(a)))
                  ELSE IF ErrorPageRendered
                  THEN Returned(Final) \in renderRoute(The(ErrorRouteOf(a)), 404,
                                                       req.method, running)
                  ELSE Final = [Response(404, "", "", EmptyHeaders) EXCEPT !.sent = TRUE]

\* C4 witness: no route matched, the dynamic /404 page was rendered and its
\* body returned with a status that the page, not the fallback, chose.
C4_Witness ==
    /\ Done /\ NoMatch /\ Returns
    /\ DynamicErrorRoute(The(errorArgs))
    /\ Final.body = errorRoutePath(404)
    /\ Final.status = 200

PrimaryReturned == primary # None /\ The(primary).kind = "response"
PrimaryResponse == The(The(primary).response)

\* C5 as stated: a 404 or 500 Response of the primary render of any non-endpoint
\* route (page, redirect, fallback) is not returned; #renderError is entered
\* with that status and that Response as the original.
C5_NonEndpointFallsBack ==
    (PrimaryReturned /\ PrimaryResponse.status \in STATUS_CODES
        /\ The(routeData).type # "endpoint") =>
        /\ errorArgs # None
        /\ The(errorArgs).status = PrimaryResponse.status
        /\ The(errorArgs).response = The(primary).response

\* C5 amended: that holds for page and redirect routes; the Response of a
\* fallback or endpoint route is returned as it is, whatever its status.
C5_PageAndRedirectFallBack ==
    PrimaryReturned =>
        IF The(routeData).type \in {"page", "redirect"}
        THEN IF PrimaryResponse.status \in STATUS_CODES
             THEN /\ errorArgs # None
                  /\ The(errorArgs).status = PrimaryResponse.status
                  /\ The(errorArgs).response = The(primary).response
             ELSE /\ errorArgs = None
                  /\ result = Some(Resolved([PrimaryResponse EXCEPT !.sent = TRUE]))
        ELSE /\ errorArgs = None
             /\ result = Some(Resolved(PrimaryResponse))

\* C5 witness: a redirect route whose middleware answered 500 is in the fallback.
C5_Witness ==
    /\ PrimaryReturned
    /\ The(routeData).type = "redirect"
    /\ PrimaryResponse.status = 500
    /\ pc = "renderError"
    /\ The(errorArgs).response = Some(PrimaryResponse)

\* C6: when the primary render returned a Response with status s in {404, 500}
\* and an error route for s exists, the final status is s; with any original,
\* the final status differs from the original's only if the original's status
\* is 200 or an override (prerendered error route) forces the requested status.
C6_OriginalStatusWins ==
    (Done /\ Returns /\ errorArgs # None /\ The(errorArgs).response # None
        /\ ErrorRouteOf(The(errorArgs)) # None) =>
        LET a == The(errorArgs)
            original == The(a.response)
        IN  /\ (PrimaryReturned /\ PrimaryResponse.status \in STATUS_CODES)
                  => Final.status = PrimaryResponse.status
            /\ PrerenderedErrorRoute(a) => Final.status = a.status
            /\ (DynamicErrorRoute(a) /\ original.status # 200)
                  => Final.status = original.status

\* C6 witness: the page returned 404, the /404 page was rendered and answered by
\* its middleware (status 302 or 500), and the final status is the page's 404.
C6_Witness ==
    /\ Done /\ Returns
    /\ PrimaryReturned /\ PrimaryResponse.status = 404
    /\ The(routeData).type = "page"
    /\ ErrorPageRendered
    /\ Final.body = "middleware"
    /\ Final.status = 404


PrimaryThrew(error) == primary # None /\ The(primary).kind = error

\* The bodies a Response of the 500 fallback can have: none, the 500 page's,
\* the static 500 document's, or one written by the 500 page's middleware.
FallbackBodies(status) ==
    {"", errorRoutePath(status), "middleware",
     statusURL(status, ErrorRoute(status, TRUE)), statusURL(status, CatchAllRoute)}

\* C7: an EndpointNotFoundError thrown by the primary render leads to
\* #renderError with status 404 and the error's original Response; any other
\* error leads to #renderError with status 500 and no original, after the error
\* was logged and before any render of the error page; what was thrown is never
\* the body of the Response.
C7_ThrownErrorsAreCaught ==
    /\ PrimaryThrew("EndpointNotFoundError") =>
          /\ errorArgs # None
          /\ The(errorArgs).status = 404
          /\ The(errorArgs).response = The(primary).response
          /\ The(errorArgs).response # None
          /\ logged = <<>>
    /\ PrimaryThrew("Error") =>
          /\ errorArgs # None
          /\ The(errorArgs).status = 500
          /\ The(errorArgs).response = None
          /\ logged = <<"Error">>
          /\ First(trace, "logger.error", 1) = First(trace, "renderRoute", 1) + 1
          /\ First(trace, "renderError", 1) = First(trace, "logger.error", 1) + 1
          /\ First(trace, "renderRoute(error)", 1) \in
                {0} \cup (First(trace, "renderError", 1) + 1 .. Len(trace))
          /\ (Done /\ Returns) => Final.body \in FallbackBodies(500) \ {"Error"}
    /\ (primary = None \/ PrimaryReturned) => logged = <<>>

\* C7 witness: the primary render threw, the error was logged, and the call
\* returned the rendered 500 page with status 500.
C7_Witness ==
    /\ PrimaryThrew("Error")
    /\ Done /\ Returns
    /\ ErrorPageRendered
    /\ Final.status = 500
    /\ Final.body = errorRoutePath(500)
    /\ logged = <<"Error">>

\* C8: every failure (no match, a failure while loading the unit or building
\* the render context, endpoint not found, a thrown error) ends in a Response
\* with status 404 or 500; render never rejects.  Stated here of the calls that
\* matched a route and failed before the primary render began.
C8_LoadFailureDegrades ==
    (Done /\ routeData # None /\ primary = None) =>
        /\ Returns
        /\ Final.status \in STATUS_CODES

\* The catch clause of #renderError was reached n times / the error page was
\* rendered n times for the call.
Catches == Count(trace, "catch")
ErrorRenders == Count(trace, "renderRoute(error)")
                + Count(trace, "renderRoute(error, skipMiddleware)")

C10_Bounded ==
    /\ Count(trace, "renderRoute") <= 1
    /\ Count(trace, "renderRoute(error)") <= 1
    /\ Count(trace, "renderRoute(error, skipMiddleware)") <= 1
    /\ Count(trace, "renderError") <= 1 + Catches
    /\ Count(trace, "renderError") <= 2
    /\ (ErrorPageRendered /\ pc # "errorRenderRoute") => Done

\* C10: every render call settles, within those bounds.
C10_Terminates == [](C10_Bounded) /\ (pc # "idle" ~> pc = "done")

\* C10 witness: a call that settled after one primary render and two renders
\* of the error page.
C10_Witness ==
    /\ Done
    /\ Count(trace, "renderRoute") = 1
    /\ ErrorRenders = 2
    /\ The(errorArgs).response # None


(***************************************************************************)
(* The Pipeline's middleware slot across requests (checked under Spec).    *)
(***************************************************************************)
\* The middleware a request configures for a render of its route: the locale
\* middleware when i18n is on, then the unit's own onRequest when it exports one.
OwnMiddleware(m, route, module) ==
    (IF m.i18n THEN <<"i18n">> ELSE <<>>)
    \o (IF module.onRequest THEN <<route.route>> ELSE <<>>)

\* C11: the middleware that runs during the primary renderRoute of a request
\* is exactly that request's own configuration, whatever requests the App
\* served before; in particular none runs when i18n is off and the unit
\* exports no onRequest.
C11_SlotIsRequestsOwn ==
    pc = "renderRoute" => running = OwnMiddleware(manifest, The(routeData), The(mod))

\* C13: with i18n active, the locale middleware is the first handler of the
\* middleware every renderRoute of the request runs with: the primary render
\* and the renders of the error page.
C13_LocaleMiddlewareFirst ==
    (manifest.i18n /\ pc \in {"renderRoute", "errorRenderRoute"}) =>
        (running # <<>> /\ running[1] = "i18n")

\* C14: handling a request leaves the Pipeline's list of registered pre-render
\* hooks as it was (hooks is its length).
C14_HooksUnchanged == [][hooks' = hooks]_vars

(***************************************************************************)
(* Concurrent render calls on one App.  A call runs without interruption   *)
(* between two awaits: render up to `await this.#getModuleForRoute`; then, *)
(* once the awaits of lines 195-206 are over, the configuration of the     *)
(* slot and the start of Pipeline.renderRoute, which runs the hooks and    *)
(* reads #onRequest (pipeline.ts 81-89) before its first await; then what  *)
(* follows `await renderRoute`.  The same holds in #renderError.  What a   *)
(* module exports is fixed by the build: exports[route] tells whether the  *)
(* module of the route exports onRequest.                                  *)
(***************************************************************************)
MaxInFlight == 2

ModuleRoutes == {"/page", "/api", "/404", "/500"}
ConcurrentPathnames == {"/page", "/api", "/missing"}

ConcurrentManifests ==
    {[exports |-> [p \in ModuleRoutes |-> p \in withOnRequest]] @@ Manifest(k4, k5, i)
        : k4 \in {"none", "dynamic"}, k5 \in {"none", "dynamic"}, i \in BOOLEAN,
          withOnRequest \in SUBSET {"/page", "/404"}}

\* The outcomes of loading the module of a route of m.
LoadOutcomesOf(m, route) == {o \in LoadOutcomes(route) : o.onRequest = m.exports[route.route]}

FlightIdle == [pc |-> "idle", pathname |-> "", routeData |-> None, mod |-> None,
               running |-> <<>>, errorArgs |-> None]

ConcurrentInit ==
    /\ manifest \in ConcurrentManifests
    /\ AppConstructed
    /\ MergeIdle
    /\ flights = [r \in 1..MaxInFlight |-> FlightIdle]
    /\ pipe = PipeIdle
    /\ helper = HelperIdle
    /\ router = RouterIdle
    /\ history = HistoryIdle
    /\ dev = DevIdle

ConcurrentFrame == UNCHANGED <<merge, pipe, helper, router, history, dev, manifest, warningShown, warnings, served,
                               pc, req, routeData, mod, running, primary, errorArgs,
                               result, trace, logged>>

\* render(request), lines 156-195, up to its first await
flightRender(r) ==
    /\ flights[r].pc = "idle"
    /\ \E pathname \in ConcurrentPathnames :
        LET found == match(pathname, manifest)
        IN  flights' = [flights EXCEPT ![r] =
                IF found = None
                THEN [@ EXCEPT !.pc = "renderError", !.pathname = pathname,
                               !.errorArgs = Some(RenderErrorOptions(404, None, FALSE))]
                ELSE [@ EXCEPT !.pc = "load", !.pathname = pathname, !.routeData = found]]
    /\ UNCHANGED <<onRequest, hooks>>
    /\ ConcurrentFrame

\* render, lines 195-226: after the awaits, the slot is configured and
\* renderRoute begins
flightLoadModule(r) ==
    /\ flights[r].pc = "load"
    /\ \E o \in LoadOutcomesOf(manifest, The(flights[r].routeData)) :
        IF o.threw # ""
        THEN /\ flights' = [flights EXCEPT ![r].pc = "done"]
             /\ UNCHANGED <<onRequest, hooks>>
        ELSE /\ onRequest' = PrimaryMiddleware(manifest, The(flights[r].routeData), o, onRequest)
             /\ hooks' = IF manifest.i18n THEN hooks + 1 ELSE hooks
             /\ flights' = [flights EXCEPT ![r].pc = "renderRoute", ![r].mod = Some(o),
                                           ![r].running = onRequest']
    /\ ConcurrentFrame

\* render, lines 226-247: the primary renderRoute settles
flightRenderRouteSettles(r) ==
    /\ flights[r].pc = "renderRoute"
    /\ \E o \in renderRoute(The(flights[r].routeData),
                            getDefaultStatusCode(The(flights[r].routeData), flights[r].pathname),
                            "GET", flights[r].running) :
        LET fallback == ErrorFallback(The(flights[r].routeData), o)
        IN  flights' = [flights EXCEPT ![r].errorArgs = fallback,
                                       ![r].pc = IF fallback # None THEN "renderError"
                                                 ELSE "done"]
    /\ UNCHANGED <<onRequest, hooks>>
    /\ ConcurrentFrame

\* #renderError, lines 332-371: no error route, or the error module is loaded,
\* the slot configured and renderRoute begun
flightRenderError(r) ==
    /\ flights[r].pc = "renderError"
    /\ LET a == The(flights[r].errorArgs)
           route == errorRouteData(a.status, manifest)
       IN  IF route = None
           THEN /\ flights' = [flights EXCEPT ![r].pc = "done"]
                /\ UNCHANGED onRequest
           ELSE \E o \in LoadOutcomesOf(manifest, The(route)) :
                   IF o.threw = "getModuleForRoute"
                   THEN /\ flights' = [flights EXCEPT ![r].pc = "done"]
                        /\ UNCHANGED onRequest
                   ELSE IF o.threw # ""
                   THEN /\ flights' = [flights EXCEPT ![r] =
                               IF RetryWithoutMiddleware(a, o)
                               THEN [@ EXCEPT !.mod = Some(o), !.errorArgs =
                                                 Some([a EXCEPT !.skipMiddleware = TRUE])]
                               ELSE [@ EXCEPT !.mod = Some(o), !.pc = "done"]]
                        /\ UNCHANGED onRequest
                   ELSE /\ onRequest' = ErrorMiddleware(a, The(route), o, onRequest)
                        /\ flights' = [flights EXCEPT ![r].pc = "errorRenderRoute",
                                                      ![r].mod = Some(o),
                                                      ![r].running = onRequest']
    /\ UNCHANGED hooks
    /\ ConcurrentFrame

\* #renderError, lines 371-382: the renderRoute of the error page settles
flightErrorRenderRouteSettles(r) ==
    /\ flights[r].pc = "errorRenderRoute"
    /\ LET a == The(flights[r].errorArgs)
       IN  \E o \in renderRoute(The(errorRouteData(a.status, manifest)), a.status, "GET",
                                flights[r].running) :
              flights' = [flights EXCEPT ![r] =
                  IF o.kind # "response" /\ RetryWithoutMiddleware(a, The(flights[r].mod))
                  THEN [@ EXCEPT !.pc = "renderError",
                                 !.errorArgs = Some([a EXCEPT !.skipMiddleware = TRUE])]
                  ELSE [@ EXCEPT !.pc = "done"]]
    /\ UNCHANGED <<onRequest, hooks>>
    /\ ConcurrentFrame

NextConcurrent ==
    \E r \in 1..MaxInFlight :
        \/ flightRender(r)
        \/ flightLoadModule(r)
        \/ flightRenderRouteSettles(r)
        \/ flightRenderError(r)
        \/ flightErrorRenderRouteSettles(r)

SpecConcurrent == ConcurrentInit /\ [][NextConcurrent]_vars

\* C12: under any interleaving of the in-flight calls, every call's primary
\* renderRoute runs with exactly the middleware of that call's own
\* configuration: no other call's configuration leaks into it.
C12_NoLeakAcrossCalls ==
    \A r \in 1..MaxInFlight :
        flights[r].pc = "renderRoute" =>
            flights[r].running = OwnMiddleware(manifest, The(flights[r].routeData),
                                               The(flights[r].mod))

\* The part of C12 about the calls that install a middleware: such a call
\* renders with the function it installed.
C12_SetterRendersOwn ==
    \A r \in 1..MaxInFlight :
        /\ (flights[r].pc = "renderRoute"
               /\ (manifest.i18n \/ The(flights[r].mod).onRequest)) =>
              flights[r].running = OwnMiddleware(manifest, The(flights[r].routeData),
                                                 The(flights[r].mod))
        /\ (flights[r].pc = "errorRenderRoute"
               /\ ~The(flights[r].errorArgs).skipMiddleware
               /\ The(flights[r].mod).onRequest) =>
              flights[r].running = <<errorRoutePath(The(flights[r].errorArgs).status)>>

(***************************************************************************)
(* One Pipeline, step by step.  pipe.hooks is #hooks.before, pipe.slot is  *)
(* #onRequest, pipe.endpointHandler tells whether #endpointHandler is set. *)
(* A renderRoute call runs the hooks, then the handlers of the slot one    *)
(* inside the other, then the render step; pipe.log lists what ran.        *)
(*                                                                         *)
(* A middleware handler is known by what it does with its continuation:    *)
(*   passes       returns next()                                           *)
(*   nextOnly     calls next() and returns nothing                         *)
(*   replaces     calls next() and returns a Response of its own           *)
(*   responds     returns a Response of its own without calling next()     *)
(*   doesNothing  returns nothing without calling next()                   *)
(*   throws       throws without calling next()                            *)
(***************************************************************************)
MaxHandlers == 2
MaxHooks == 2

HandlerKinds == {"passes", "nextOnly", "replaces", "responds", "doesNothing", "throws"}
CallsNext(h) == h \in {"passes", "nextOnly", "replaces"}

\* Bounded sequences over a set.
SeqsUpTo(S, n) == UNION {[1..k -> S] : k \in 0..n}

\* sequence(...handlers): one handler that runs the given ones in order.
sequence(handlers) == [kind |-> "sequence", handlers |-> handlers]
Handler(h) == [kind |-> "handler", handlers |-> <<h>>]

MiddlewareHandlers ==
    {Handler(h) : h \in HandlerKinds} \cup {sequence(hs) : hs \in SeqsUpTo(HandlerKinds, MaxHandlers)}

\* Pre-render hooks; the hook named broken throws.
HookFns == {"i18nPipelineHook", "annotate", "broken"}

RouteTypes == {"page", "fallback", "redirect", "endpoint", "unknown"}
RouteOfType(type) ==
    IF type = "redirect" THEN RedirectRoute
    ELSE IF type = "endpoint" THEN EndpointRoute
    ELSE IF type = "fallback" THEN FallbackRoute
    ELSE IF type = "page" THEN PageRoute
    ELSE RouteData("/unknown", type, FALSE, {})

PipelineConstructed ==
    [pc |-> "configure", hooks |-> <<>>, slot |-> None, endpointHandler |-> FALSE,
     type |-> "", unit |-> "undefined", i |-> 0, nextCalled |-> FALSE, rendered |-> None, value |-> None,
     result |-> None, log |-> <<>>]

PipeInit ==
    /\ pipe = PipelineConstructed
    /\ manifest = Manifest("none", "none", FALSE)
    /\ AppConstructed
    /\ MergeIdle
    /\ flights = NoFlights
    /\ helper = HelperIdle
    /\ router = RouterIdle
    /\ history = HistoryIdle
    /\ dev = DevIdle

PipeFrame == UNCHANGED <<merge, flights, helper, router, history, dev, appVars>>

\* Pipeline.setEndpointHandler
setEndpointHandler ==
    /\ pipe.pc = "configure"
    /\ pipe' = [pipe EXCEPT !.endpointHandler = TRUE]
    /\ PipeFrame

\* Pipeline.setMiddlewareFunction
setMiddlewareFunction ==
    /\ pipe.pc = "configure"
    /\ \E h \in MiddlewareHandlers : pipe' = [pipe EXCEPT !.slot = Some(h)]
    /\ PipeFrame

\* Pipeline.unsetMiddlewareFunction
unsetMiddlewareFunction ==
    /\ pipe.pc = "configure"
    /\ pipe' = [pipe EXCEPT !.slot = None]
    /\ PipeFrame

\* Pipeline.onBeforeRenderRoute
onBeforeRenderRoute ==
    /\ pipe.pc = "configure"
    /\ Len(pipe.hooks) < MaxHooks
    /\ \E fn \in HookFns : pipe' = [pipe EXCEPT !.hooks = Append(@, fn)]
    /\ PipeFrame

\* The handlers the slot's handler runs, outermost first.
Handlers(slot) == IF slot = None THEN <<>> ELSE The(slot).handlers

\* renderRoute, lines 81-83: the hooks that run, in order; a hook that throws
\* ends the loop.
HooksRun(fns) ==
    IF First(fns, "broken", 1) = 0 THEN fns
    ELSE SubSeq(fns, 1, First(fns, "broken", 1))
HookThrows(fns) == First(fns, "broken", 1) # 0

\* A bug variant of HookEvents: the hooks run last registered first.
HookEventsReversed(fns) == [k \in 1..Len(fns) |-> <<"hook", fns[Len(fns) + 1 - k]>>]

\* renderRoute, lines 81-83: the calls of the loop over #hooks.before
HookEvents(fns) == [k \in 1..Len(fns) |-> <<"hook", fns[k]>>]

\* A bug variant of tryRenderRoute: the middleware of the slot is not applied.
tryRenderRouteWithoutMiddleware(type, slot) ==
    IF type \in {"page", "fallback", "redirect", "endpoint"} THEN "render"
    ELSE "throw"

\* A bug variant of tryRenderRoute: the middleware is applied to pages only.
tryRenderRoutePagesOnly(type, slot) ==
    IF type \in {"page", "fallback", "redirect", "endpoint"}
    THEN IF slot # None /\ type = "page" THEN "callMiddleware" ELSE "render"
    ELSE "throw"

\* A bug variant of tryRenderRoute: a route of any other type is rendered as
\* a page.
tryRenderRouteAnyType(type, slot) ==
    IF slot # None THEN "callMiddleware" ELSE "render"

\* #tryRenderRoute, lines 129-156 (callEndpoint applies the middleware it is
\* given around the endpoint): where the dispatch on the route type leads.
tryRenderRoute(type, slot) ==
    IF type \in {"page", "fallback", "redirect", "endpoint"}
    THEN IF slot # None THEN "callMiddleware" ELSE "render"
    ELSE "throw"

\* callMiddleware: what the call resolves to once the slot's handler has
\* returned value (None: nothing), given whether the continuation was called
\* and what it rendered.
MiddlewareResult(nextCalled, value, rendered) ==
    IF nextCalled
    THEN IF value # None THEN Returned(The(value)) ELSE Returned(The(rendered))
    ELSE IF value = None THEN Threw("MiddlewareNoDataOrNextCalled", None)
    ELSE Returned(The(value))

\* Pipeline.renderRoute, lines 77-89 and 112-157, up to its first await: the
\* hooks run, the slot is read and the dispatch on the route type begins.
pipeRenderRoute ==
    /\ pipe.pc = "configure"
    /\ \E type \in RouteTypes, unit \in Units :
        LET ran == HooksRun(pipe.hooks)
            entry == tryRenderRoute(type, pipe.slot)
            started == [pipe EXCEPT !.type = type, !.unit = unit, !.log = HookEvents(ran)]
        IN  pipe' =
              IF HookThrows(pipe.hooks) \/ entry = "throw"
              THEN [started EXCEPT !.result = Some(Threw("Error", None)), !.pc = "done"]
              ELSE IF entry = "callMiddleware" /\ Handlers(pipe.slot) # <<>>
              THEN [started EXCEPT !.pc = "handler", !.i = 1]
              ELSE [started EXCEPT !.pc = "render", !.i = 0]
    /\ PipeFrame

\* The handler at position i is invoked.
handlerRuns ==
    /\ pipe.pc = "handler"
    /\ LET h == Handlers(pipe.slot)[pipe.i]
           called == [pipe EXCEPT !.log = Append(@, <<"handler", pipe.i>>)]
       IN  IF CallsNext(h)
           THEN pipe' = IF pipe.i < Len(Handlers(pipe.slot))
                        THEN [called EXCEPT !.i = @ + 1]
                        ELSE [called EXCEPT !.pc = "render"]
           ELSE IF h = "responds"
           THEN \E s \in MiddlewareStatuses :
                   pipe' = [called EXCEPT !.value = Some(Response(s, "", "middleware",
                                                                  EmptyHeaders)),
                                          !.pc = "return", !.i = @ - 1]
           ELSE IF h = "doesNothing"
           THEN pipe' = [called EXCEPT !.value = None, !.pc = "return", !.i = @ - 1]
           ELSE pipe' = [called EXCEPT !.result = Some(Threw("Error", None)), !.pc = "done"]
    /\ PipeFrame

\* The continuation of the last handler: the render step of the route.
routeRenders ==
    /\ pipe.pc = "render"
    /\ \E o \in (IF pipe.type = "endpoint" THEN callEndpoint(RouteOfType(pipe.type))
                 ELSE renderPage(RouteOfType(pipe.type), 200, "GET", pipe.unit)) :
        LET ran == [pipe EXCEPT !.log = Append(@, <<"render">>), !.nextCalled = TRUE]
        IN  pipe' = IF o.kind = "response"
                    THEN [ran EXCEPT !.rendered = o.response, !.value = o.response,
                                     !.pc = "return"]
                    ELSE [ran EXCEPT !.result = Some(o), !.pc = "done"]
    /\ PipeFrame

\* next() has resolved for the handler at position i, which returns.
handlerReturns ==
    /\ pipe.pc = "return"
    /\ pipe.i >= 1
    /\ LET h == Handlers(pipe.slot)[pipe.i]
       IN  pipe' = [pipe EXCEPT !.i = @ - 1,
                                !.value = IF h = "passes" THEN @
                                          ELSE IF h = "nextOnly" THEN None
                                          ELSE Some(Response(200, "", "middleware",
                                                             EmptyHeaders))]
    /\ PipeFrame

\* A bug variant of middlewareSettles: the result of every route type is given
\* to the endpoint handler.
middlewareSettlesHandlingAll ==
    /\ pipe.pc = "return"
    /\ pipe.i = 0
    /\ LET o == IF pipe.slot = None THEN Returned(The(pipe.value))
                ELSE MiddlewareResult(pipe.nextCalled, pipe.value, pipe.rendered)
       IN  pipe' =
             IF o.kind = "response"
             THEN [pipe EXCEPT !.pc = "done",
                               !.result = IF pipe.endpointHandler
                                          THEN Some(endpointHandler(o))
                                          ELSE Some(Threw("Error", None)),
                               !.log = IF pipe.endpointHandler
                                       THEN Append(@, <<"endpointHandler">>) ELSE @]
             ELSE [pipe EXCEPT !.pc = "done", !.result = Some(o)]
    /\ PipeFrame

\* The slot's handler has returned: callMiddleware resolves, and renderRoute
\* (lines 90-99) hands an endpoint's result to the endpoint handler.
middlewareSettles ==
    /\ pipe.pc = "return"
    /\ pipe.i = 0
    /\ LET o == IF pipe.slot = None THEN Returned(The(pipe.value))
                ELSE MiddlewareResult(pipe.nextCalled, pipe.value, pipe.rendered)
       IN  pipe' =
             IF pipe.type = "endpoint" /\ o.kind = "response"
             THEN [pipe EXCEPT !.pc = "done",
                               !.result = IF pipe.endpointHandler
                                          THEN Some(endpointHandler(o))
                                          ELSE Some(Threw("Error", None)),
                               !.log = IF pipe.endpointHandler
                                       THEN Append(@, <<"endpointHandler">>) ELSE @]
             ELSE [pipe EXCEPT !.pc = "done", !.result = Some(o)]
    /\ PipeFrame

\* The caller has the outcome; the Pipeline is ready for the next call.
pipeSettled ==
    /\ pipe.pc = "done"
    /\ pipe' = [PipelineConstructed EXCEPT !.hooks = pipe.hooks, !.slot = pipe.slot,
                                           !.endpointHandler = pipe.endpointHandler]
    /\ PipeFrame

NextPipe ==
    \/ setEndpointHandler
    \/ setMiddlewareFunction
    \/ unsetMiddlewareFunction
    \/ onBeforeRenderRoute
    \/ pipeRenderRoute
    \/ handlerRuns
    \/ routeRenders
    \/ handlerReturns
    \/ middlewareSettles
    \/ pipeSettled

SpecPipeline == PipeInit /\ [][NextPipe]_vars

(***************************************************************************)
(* Properties of Pipeline.renderRoute (checked under SpecPipeline).        *)
(***************************************************************************)
PipeRunning == pipe.pc # "configure"
PipeDone == pipe.pc = "done"
PipeResult == The(pipe.result)
EventsOf(kind) == SelectSeq(pipe.log, LAMBDA e : e[1] = kind)
Rendered == Len(EventsOf("render")) > 0
\* The handlers the slot was given, as passed to sequence (or the single one).
Given == The(pipe.slot).handlers

\* C15: in a renderRoute call the registered hooks run first, in registration
\* order, each once (up to one that throws), and the middleware or the render
\* step starts only when all of them have completed.
C15_HooksRunFirstInOrder ==
    PipeRunning =>
        LET n == Len(EventsOf("hook"))
        IN  /\ n <= Len(pipe.hooks)
            /\ \A k \in 1..n : pipe.log[k] = <<"hook", pipe.hooks[k]>>
            /\ \A k \in 1..Len(pipe.log) : k > n => pipe.log[k][1] # "hook"
            /\ n < Len(pipe.hooks) => (pipe.hooks[n] = "broken" /\ Len(pipe.log) = n /\ PipeDone)
            /\ Len(pipe.log) > n => (n = Len(pipe.hooks) /\ ~HookThrows(pipe.hooks))

\* C15 witness: two different hooks ran in registration order, then a handler,
\* then the render step.
C15_Witness ==
    /\ PipeDone
    /\ Len(pipe.hooks) = 2 /\ pipe.hooks[1] # pipe.hooks[2]
    /\ Len(pipe.log) = 4
    /\ pipe.log[1] = <<"hook", pipe.hooks[1]>>
    /\ pipe.log[2] = <<"hook", pipe.hooks[2]>>
    /\ pipe.log[3] = <<"handler", 1>>
    /\ pipe.log[4] = <<"render">>

\* C16: the handlers given to sequence run in the order passed: the first is
\* invoked first, the next one only when the one before it called its
\* continuation, the render step only when the last one did, and after a
\* handler that returns without calling its continuation no later handler and
\* no render runs; sequence() with no handler goes straight to the render
\* step and resolves to its result.
C16_SequenceRunsInOrder ==
    (PipeRunning /\ pipe.slot # None /\ pipe.type # "unknown" /\ ~HookThrows(pipe.hooks)) =>
        LET ran == EventsOf("handler")
        IN  /\ Len(ran) <= Len(Given)
            /\ \A k \in 1..Len(ran) : ran[k] = <<"handler", k>>
            /\ \A k \in 1..Len(ran) : k < Len(ran) => CallsNext(Given[k])
            /\ Rendered => (Len(ran) = Len(Given) /\ \A k \in 1..Len(Given) : CallsNext(Given[k]))
            /\ Len(EventsOf("render")) <= 1
            /\ \A k \in 1..Len(pipe.log) :
                  pipe.log[k] = <<"render">> => \A j \in 1..Len(Given) :
                      \E before \in 1..(k - 1) : pipe.log[before] = <<"handler", j>>
            /\ PipeDone => \/ Rendered
                           \/ \E k \in 1..Len(Given) : ~CallsNext(Given[k]) /\ Len(ran) = k
            /\ (PipeDone /\ Given = <<>> /\ pipe.type # "endpoint") =>
                  /\ Rendered
                  /\ PipeResult = IF pipe.rendered # None THEN Returned(The(pipe.rendered))
                                  ELSE Threw("Error", None)

\* C16 witness: of two sequenced handlers the first called its continuation,
\* the second answered itself, and the render step never ran.
C16_Witness ==
    /\ PipeDone
    /\ pipe.slot = Some(sequence(<<"passes", "responds">>))
    /\ EventsOf("handler") = << <<"handler", 1>>, <<"handler", 2>> >>
    /\ ~Rendered
    /\ PipeResult.kind = "response"
    /\ The(PipeResult.response).body = "middleware"

\* The slot's handler as a whole returns nothing without the render step having
\* run: the first handler that does not call its continuation does not throw,
\* and the outermost handler that does not pass its continuation's result on
\* returns nothing.
RECURSIVE FirstNot(_, _, _)
FirstNot(hs, kinds, i) ==
    IF i > Len(hs) THEN 0 ELSE IF hs[i] \notin kinds THEN i ELSE FirstNot(hs, kinds, i + 1)
Silent(hs) ==
    LET stops == FirstNot(hs, {"passes", "nextOnly", "replaces"}, 1)
        outer == FirstNot(hs, {"passes"}, 1)
    IN  /\ stops # 0
        /\ hs[stops] # "throws"
        /\ hs[outer] \in {"nextOnly", "doesNothing"}

\* C17: running the slot's handler ends in MiddlewareNoDataOrNextCalled exactly
\* when the handler returned no Response and did not call its continuation
\* (a single handler: exactly when it does nothing); a handler that calls its
\* continuation and returns nothing yields the rendered page.
C17_NoDataOrNextCalled ==
    (PipeDone /\ pipe.slot # None /\ pipe.type # "unknown" /\ ~HookThrows(pipe.hooks)) =>
        /\ PipeResult.kind = "MiddlewareNoDataOrNextCalled" <=> Silent(Given)
        /\ The(pipe.slot).kind = "handler" =>
              (PipeResult.kind = "MiddlewareNoDataOrNextCalled" <=> Given[1] = "doesNothing")
        /\ (Given = <<"nextOnly">> /\ pipe.type # "endpoint") =>
              /\ Rendered
              /\ PipeResult = IF pipe.rendered # None THEN Returned(The(pipe.rendered))
                              ELSE Threw("Error", None)

\* C17 witness: a redirect route behind a handler that does nothing ended in
\* the named error, with no render.
C17_Witness ==
    /\ PipeDone
    /\ pipe.slot = Some(Handler("doesNothing"))
    /\ pipe.type = "redirect"
    /\ ~Rendered
    /\ PipeResult = Threw("MiddlewareNoDataOrNextCalled", None)

(***************************************************************************)
(* The route helpers on their own: one call of redirectRouteStatus,        *)
(* redirectRouteGenerate or #getDefaultStatusCode on arguments drawn from  *)
(* the routes a manifest can hold.  A destination is a string cut into     *)
(* pieces: literal text, a [param] token or a [...param] token.            *)
(***************************************************************************)
Lit(text) == [kind |-> "lit", text |-> text]
ParamToken(name) == [kind |-> "param", text |-> name]
RestToken(name) == [kind |-> "rest", text |-> name]

\* String.prototype.replace(token, value): the first occurrence is replaced.
RECURSIVE FirstPiece(_, _, _)
FirstPiece(target, token, i) ==
    IF i > Len(target) THEN 0
    ELSE IF target[i] = token THEN i
    ELSE FirstPiece(target, token, i + 1)
replace(target, token, value) ==
    IF FirstPiece(target, token, 1) = 0 THEN target
    ELSE [target EXCEPT ![FirstPiece(target, token, 1)] = Lit(value)]

\* lines 24-30: the loop over Object.keys(data); data lists the params in
\* key order.
RECURSIVE SubstituteParams(_, _)
SubstituteParams(target, data) ==
    IF data = <<>> THEN target
    ELSE SubstituteParams(
            replace(replace(target, ParamToken(Head(data).name), Head(data).value),
                    RestToken(Head(data).name), Head(data).value),
            Tail(data))

\* route.generate(data) of the route a redirect points to: the route's own
\* path with its params filled in.
ValueOf(data, name) ==
    LET found == {k \in 1..Len(data) : data[k].name = name}
    IN  IF found = {} THEN "undefined" ELSE data[CHOOSE k \in found : TRUE].value
generate(route, data) ==
    [k \in 1..Len(route.template) |->
        IF route.template[k].kind = "lit" THEN route.template[k]
        ELSE Lit(ValueOf(data, route.template[k].text))]

\* redirectRouteGenerate of core/redirects/helpers.ts
redirectRouteGenerate(redirectRoute, data) ==
    IF redirectRoute.redirectRoute # None
    THEN LET pointedTo == The(redirectRoute.redirectRoute)
         IN  IF generate(pointedTo, data) # <<>> THEN generate(pointedTo, data)
             ELSE IF pointedTo.pathname # None THEN <<Lit(The(pointedTo.pathname))>>
             ELSE <<Lit("/")>>
    ELSE IF redirectRoute.redirect.kind = "string"
    THEN SubstituteParams(redirectRoute.redirect.destination, data)
    ELSE IF redirectRoute.redirect.kind = "undefined" THEN <<Lit("/")>>
    ELSE redirectRoute.redirect.destination

\* The routes the helpers are called on.  A redirect route carries its own
\* redirect configuration and, when its destination is the path of a route of
\* the table, that route; a target is a page, or a redirect itself.
Methods == {"GET", "HEAD", "POST", "PUT", "DELETE"}
DeclaredStatuses == {302, 307}

Destinations ==
    {<<Lit("/new")>>,
     <<Lit("/new/"), ParamToken("slug")>>,
     <<Lit("/docs/"), RestToken("slug")>>,
     <<Lit("/"), ParamToken("lang"), Lit("/"), RestToken("slug")>>,
     <<Lit("/"), ParamToken("slug"), Lit("/"), ParamToken("slug")>>}

RedirectConfigs ==
    {RedirectUndefined}
    \cup {RedirectString(d) : d \in Destinations}
    \cup {RedirectObject(d, s) : d \in Destinations, s \in DeclaredStatuses}

TargetRoute(template, redirect) ==
    [template |-> template, redirect |-> redirect, pathname |-> None]
    @@ RouteData("/new", IF redirect.kind = "undefined" THEN "page" ELSE "redirect", FALSE, {})

RedirectRouteData(redirect, target) ==
    [redirect |-> redirect, redirectRoute |-> target] @@ RouteData("/old", "redirect", FALSE, {})

\* The redirect routes of a manifest: the target is the route whose path is the
\* destination, when there is one.
RedirectRoutes ==
    {RedirectRouteData(c, None) : c \in RedirectConfigs}
    \cup {RedirectRouteData(c, Some(TargetRoute(c.destination, t))) :
             c \in RedirectConfigs \ {RedirectUndefined},
             t \in {RedirectUndefined, RedirectObject(<<Lit("/newer")>>, 307)}}

\* Resolved params, in key order.
ParamData ==
    {<< [name |-> "slug", value |-> v] >> : v \in {"abc", "a/b"}}
    \cup {<< [name |-> "lang", value |-> "en"], [name |-> "slug", value |-> v] >> :
             v \in {"abc", "a/b"}}

\* The tokens of a destination all name resolved params.
Resolves(data, destination) ==
    \A k \in 1..Len(destination) :
        destination[k].kind = "lit" \/ \E j \in 1..Len(data) : data[j].name = destination[k].text

\* Routes and pathnames #getDefaultStatusCode is called with.
StatusRoutes ==
    {RouteData(p, "page", FALSE, {}) :
        p \in {"/404", "/500", "/404/", "/500/", "/blog/404", "/blog/500", "/page404"}}
    \cup {PageRoute, RedirectRoute, EndpointRoute, FallbackRoute,
          RouteData("/404", "page", FALSE, {"/es/404"})}
StatusPathnames(route) == {route.route, "/other"} \cup route.fallbackRoutes

\* A pathname, or the base of the site, as the characters it is made of.
MaxPathLength == 4
PathCharacters == {"/", "b", "g"}
Bases == {<<"/">>, <<"/", "b">>, <<"/", "b", "/">>}
\* URL pathnames: they start with a slash and have no two slashes in a row
BasedPathnames ==
    {x \in SeqsUpTo(PathCharacters, MaxPathLength) :
        /\ x # <<>> /\ x[1] = "/"
        /\ \A i \in 1..(Len(x) - 1) : ~(x[i] = "/" /\ x[i + 1] = "/")}

\* String.prototype.startsWith and String.prototype.slice(n)
startsWith(text, prefix) ==
    Len(prefix) <= Len(text) /\ SubSeq(text, 1, Len(prefix)) = prefix
slice(text, n) == IF n >= Len(text) THEN <<>> ELSE SubSeq(text, n + 1, Len(text))

\* App constructor, line 75: removeTrailingForwardSlash(this.#manifest.base)
baseWithoutTrailingSlash(base) ==
    IF base # <<>> /\ base[Len(base)] = "/" THEN SubSeq(base, 1, Len(base) - 1) ELSE base

\* App.removeBase, lines 126-131
removeBase(base, pathname) ==
    IF startsWith(pathname, base)
    THEN slice(pathname, Len(baseWithoutTrailingSlash(base)) + 1)
    ELSE pathname

\* prependForwardSlash of core/path: a path gets a leading slash if it has none
prependForwardSlash(path) ==
    IF path # <<>> /\ path[1] = "/" THEN path ELSE <<"/">> \o path

HelperCalls ==
    {[fn |-> "removeBase", route |-> [base |-> b], method |-> "GET", data |-> <<>>,
      pathname |-> x, result |-> None] : b \in Bases, x \in BasedPathnames}
    \cup
    {[fn |-> "redirectRouteStatus", route |-> r, method |-> m, data |-> <<>>,
      pathname |-> "", result |-> None] : r \in RedirectRoutes, m \in Methods}
    \cup {c \in {[fn |-> "redirectRouteGenerate", route |-> r, method |-> "GET",
                   data |-> d, pathname |-> "", result |-> None] :
                     r \in RedirectRoutes, d \in ParamData} :
             c.route.redirect.kind = "undefined"
                 \/ Resolves(c.data, c.route.redirect.destination)}
    \cup UNION {{[fn |-> "getDefaultStatusCode", route |-> r, method |-> "GET",
                  data |-> <<>>, pathname |-> p, result |-> None] :
                    p \in StatusPathnames(r)} : r \in StatusRoutes}

HelperInit ==
    /\ helper \in HelperCalls
    /\ manifest = Manifest("none", "none", FALSE)
    /\ AppConstructed
    /\ MergeIdle
    /\ flights = NoFlights
    /\ pipe = PipeIdle
    /\ router = RouterIdle
    /\ history = HistoryIdle
    /\ dev = DevIdle

HelperFrame == UNCHANGED <<merge, flights, pipe, router, history, dev, appVars>>

redirectRouteStatusCall ==
    /\ helper.fn = "redirectRouteStatus" /\ helper.result = None
    /\ helper' = [helper EXCEPT !.result = Some(redirectRouteStatus(helper.route,
                                                                    helper.method))]
    /\ HelperFrame

redirectRouteGenerateCall ==
    /\ helper.fn = "redirectRouteGenerate" /\ helper.result = None
    /\ helper' = [helper EXCEPT !.result = Some(redirectRouteGenerate(helper.route,
                                                                      helper.data))]
    /\ HelperFrame

getDefaultStatusCodeCall ==
    /\ helper.fn = "getDefaultStatusCode" /\ helper.result = None
    /\ helper' = [helper EXCEPT !.result = Some(getDefaultStatusCode(helper.route,
                                                                     helper.pathname))]
    /\ HelperFrame

removeBaseCall ==
    /\ helper.fn = "removeBase" /\ helper.result = None
    /\ helper' = [helper EXCEPT !.result = Some(removeBase(helper.route.base,
                                                          helper.pathname))]
    /\ HelperFrame

NextHelper ==
    \/ removeBaseCall
    \/ redirectRouteStatusCall
    \/ redirectRouteGenerateCall
    \/ getDefaultStatusCodeCall

SpecHelpers == HelperInit /\ [][NextHelper]_vars

HelperCalled(fn) == helper.fn = fn /\ helper.result # None
HelperResult == The(helper.result)

\* C18: a redirect route's status is the status the route declares when it
\* declares one, else 301 for GET and HEAD and 308 for every other method.
C18_RedirectStatus ==
    HelperCalled("redirectRouteStatus") =>
        HelperResult = IF helper.route.redirect.kind = "object"
                       THEN helper.route.redirect.status
                       ELSE IF helper.method \in {"GET", "HEAD"} THEN 301
                       ELSE 308

NoTokens(pieces) == \A k \in 1..Len(pieces) : pieces[k].kind = "lit"
Substituted(destination, data) ==
    [k \in 1..Len(destination) |->
        IF destination[k].kind = "lit" THEN destination[k]
        ELSE Lit(ValueOf(data, destination[k].text))]

\* C19: for a redirect route with a destination (a string, or an object with a
\* destination and a status) whose tokens name resolved params, the location
\* is the destination with every token replaced by its param's value, no token
\* remaining; when the target is another route it is that route's generate.
C19_RedirectLocation ==
    (HelperCalled("redirectRouteGenerate") /\ helper.route.redirect.kind # "undefined") =>
        IF helper.route.redirectRoute # None
        THEN HelperResult = generate(The(helper.route.redirectRoute), helper.data)
        ELSE /\ HelperResult = Substituted(helper.route.redirect.destination, helper.data)
             /\ NoTokens(HelperResult)

Literally(route, path) ==
    removeTrailingForwardSlash(Path(route.route)) = Path(path)

\* C20 as stated: the default status is 404 or 500 only if the route's own path
\* is literally /404 or /500 (a trailing slash aside), 302 if the pathname
\* matches one of the route's fallback routes, otherwise 200.
C20_DefaultStatusLiteral ==
    HelperCalled("getDefaultStatusCode") =>
        /\ HelperResult = 404 => Literally(helper.route, "/404")
        /\ HelperResult = 500 => Literally(helper.route, "/500")
        /\ helper.pathname \in helper.route.fallbackRoutes => HelperResult = 302
        /\ HelperResult \in {200, 302, 404, 500}
        /\ HelperResult = 200 =>
              /\ ~Literally(helper.route, "/404") /\ ~Literally(helper.route, "/500")
              /\ helper.pathname \notin helper.route.fallbackRoutes

\* C20 amended: 302 if the pathname does not match the route's own pattern and
\* matches one of its fallback routes; else 404 or 500 if the route's path,
\* a trailing slash aside, ends with /404 or /500 (the path /404 itself or any
\* path whose last segment is 404); otherwise 200.
C20_DefaultStatusEndsWith ==
    HelperCalled("getDefaultStatusCode") =>
        LET segments == Path(helper.route.route).segments
            last == IF segments = <<>> THEN "" ELSE segments[Len(segments)]
        IN  HelperResult =
              IF helper.pathname # helper.route.route
                 /\ helper.pathname \in helper.route.fallbackRoutes THEN 302
              ELSE IF last = "404" THEN 404
              ELSE IF last = "500" THEN 500
              ELSE 200

\* C20 witness: a nested route whose last segment is 404 got 404, not 200.
C20_Witness ==
    /\ HelperCalled("getDefaultStatusCode")
    /\ helper.route.route = "/blog/404"
    /\ helper.pathname = "/blog/404"
    /\ HelperResult = 404

(***************************************************************************)
(* The route matcher and the route search.  The route table is kept in     *)
(* order of specificity by createRouteManifest; matchAllRoutes and         *)
(* matchRoute of core/routing read it, App.match (core/app) and the dev    *)
(* server's matchRoute (vite-plugin-astro-server/route.ts) call them.      *)
(***************************************************************************)
MaxRoutes == 3

IsParameter(segment) == segment \in DynamicSegments \cup RestSegments
HasRest(route) == \E i \in DOMAIN Path(route.route).segments :
                      Path(route.route).segments[i] \in RestSegments
HasDynamic(route) == \E i \in DOMAIN Path(route.route).segments :
                         Path(route.route).segments[i] \in DynamicSegments
IsStaticRoute(route) == ~HasRest(route) /\ ~HasDynamic(route)
Depth(route) == Len(Path(route.route).segments)
MaxDepth == 3

\* Stable sort: every route goes before the first route it ranks strictly
\* before, so that routes of equal rank keep the order they came in.
RECURSIVE InsertBy(_, _, _)
InsertBy(rank, route, sorted) ==
    IF sorted = <<>> THEN <<route>>
    ELSE IF rank[route] < rank[Head(sorted)] THEN <<route>> \o sorted
    ELSE <<Head(sorted)>> \o InsertBy(rank, route, Tail(sorted))

RECURSIVE SortBy(_, _)
SortBy(rank, routes) ==
    IF routes = <<>> THEN <<>>
    ELSE InsertBy(rank, routes[Len(routes)], SortBy(rank, SubSeq(routes, 1, Len(routes) - 1)))

\* Specificity: static routes, then routes with dynamic segments, then rest
\* routes, the deeper rest routes first.
Specificity(route) ==
    IF HasRest(route) THEN 2 * (MaxDepth + 1) + (MaxDepth - Depth(route))
    ELSE IF HasDynamic(route) THEN MaxDepth + 1
    ELSE 0

\* A bug variant of createRouteManifest: the routes stay as they were declared.
createRouteManifestUnsorted(declared) == declared

\* createRouteManifest of core/routing: the declared routes by specificity
createRouteManifest(declared) ==
    SortBy([r \in {declared[i] : i \in DOMAIN declared} |-> Specificity(r)], declared)

\* matchAllRoutes of core/routing/match
matchAllRoutes(pathname, manifestData) ==
    SelectSeq(manifestData.routes, LAMBDA route : PatternTest(route, pathname))

\* The routes of test/units/routing/route-matching.test.js, with two static
\* pages, a prerendered page and a page with a fallback route.
ServerDynamic == RouteData("/[serverdynamic]", "page", FALSE, {})
XStaticDynamic == RouteData("/[xstaticdynamic]", "page", TRUE, {})
AStaticDynamic == RouteData("/[astaticdynamic]", "page", TRUE, {})
ServerRest == RouteData("/[...serverrest]", "page", FALSE, {})
XStaticRest == RouteData("/[...xstaticrest]", "page", TRUE, {})
AStaticRest == RouteData("/[...astaticrest]", "page", TRUE, {})
NestedServerRest == RouteData("/nested/[...serverrest]", "page", FALSE, {})
NestedXStaticRest == RouteData("/nested/[...xstaticrest]", "page", TRUE, {})
NestedAStaticRest == RouteData("/nested/[...astaticrest]", "page", TRUE, {})
NestedPage == RouteData("/nested/page", "page", FALSE, {})

RouterRoutes == {PageRoute, StaticRoute, NestedPage, ErrorRoute(404, FALSE),
                 ServerDynamic, AStaticDynamic, ServerRest, AStaticRest,
                 NestedServerRest, NestedAStaticRest}

\* The file tree of the test as a directory listing gives it.
ListedRoutes ==
    <<AStaticRest, ServerRest, XStaticRest, AStaticDynamic, ServerDynamic,
      XStaticDynamic, NestedAStaticRest, NestedServerRest, NestedXStaticRest>>

RECURSIVE Declarations(_)
Declarations(n) ==
    IF n = 0 THEN {<<>>}
    ELSE LET shorter == Declarations(n - 1)
         IN  shorter \cup {Append(d, r) : d \in {s \in shorter : Len(s) = n - 1},
                                          r \in RouterRoutes}

NoDuplicates(declared) ==
    \A i, j \in DOMAIN declared : i # j => declared[i] # declared[j]

DeclaredTables ==
    {d \in Declarations(MaxRoutes) : NoDuplicates(d)} \cup {ListedRoutes}

RouterPathnames == {"/", "/page", "/page.html", "/static", "/es/page", "/nested",
                    "/nested/page", "/nested/a/b", "/missing", "/favicon.ico"}

RouterOps == {"match", "matchRoute", "matchAllRoutes", "devMatchRoute"}

\* candidates, tried and outcomes belong to the route search: the sorted
\* matches, those whose static paths were resolved so far, and how each went.
RouterCall(op, pathname, declared) ==
    [op |-> op, pathname |-> pathname, declared |-> declared, pc |-> "call",
     candidates |-> <<>>, tried |-> <<>>, outcomes |-> <<>>, warned |-> FALSE,
     result |-> None]

RouterInit ==
    /\ \E declared \in DeclaredTables :
           /\ manifest = [routes |-> createRouteManifest(declared), i18n |-> FALSE]
           /\ router \in {RouterCall(op, p, declared) :
                              op \in RouterOps, p \in RouterPathnames}
    /\ AppConstructed
    /\ MergeIdle
    /\ flights = NoFlights
    /\ pipe = PipeIdle
    /\ helper = HelperIdle
    /\ history = HistoryIdle
    /\ dev = DevIdle

RouterFrame == UNCHANGED <<merge, flights, pipe, helper, history, dev, appVars>>

\* App.match(request)
matchCall ==
    /\ router.op = "match" /\ router.pc = "call"
    /\ router' = [router EXCEPT !.pc = "done",
                                !.result = Some(match(router.pathname, manifest))]
    /\ RouterFrame

\* matchRoute(pathname, manifestData)
matchRouteCall ==
    /\ router.op = "matchRoute" /\ router.pc = "call"
    /\ router' = [router EXCEPT !.pc = "done",
                                !.result = Some(matchRoute(router.pathname, manifest))]
    /\ RouterFrame

\* matchAllRoutes(pathname, manifestData)
matchAllRoutesCall ==
    /\ router.op = "matchAllRoutes" /\ router.pc = "call"
    /\ router' = [router EXCEPT !.pc = "done",
                                !.result = Some(matchAllRoutes(router.pathname, manifest))]
    /\ RouterFrame

\* Candidates of the route search: prerendered routes before server routes
\* among the routes with dynamic segments and among the rest routes of one
\* depth.
PreloadedRank(route) ==
    IF HasRest(route)
    THEN 3 + 2 * (MaxDepth - Depth(route)) + (IF route.prerender THEN 0 ELSE 1)
    ELSE IF HasDynamic(route) THEN (IF route.prerender THEN 1 ELSE 2)
    ELSE 0

\* A bug variant of getSortedPreloadedMatches: the matches stay in the order
\* of the table.
getSortedPreloadedMatchesAsMatched(matches) == matches

\* getSortedPreloadedMatches of prerender/routing
getSortedPreloadedMatches(matches) ==
    SortBy([r \in {matches[i] : i \in DOMAIN matches} |-> PreloadedRank(r)], matches)

\* getParamsAndProps for a candidate: it resolves, or throws
\* NoMatchingStaticPathFound (a prerendered route that does not enumerate the
\* pathname) or another error (a prerendered route whose getStaticPaths is
\* missing or fails).
getParamsAndProps(route) ==
    IF IsStaticRoute(route) \/ ~route.prerender THEN {"ok"}
    ELSE {"ok", "NoMatchingStaticPathFound", "GetStaticPathsRequired"}

\* A bug variant of Recoverable: every error of a candidate is passed over.
RecoverableAlways(error) == TRUE

\* line 100: the error that lets the search go on
Recoverable(error) == error = "NoMatchingStaticPathFound"

\* line 110: pathname.replace(/(index)?\.html$/, '')
altPathname(pathname) == IF pathname = "/page.html" THEN "/page" ELSE pathname

\* getCustom404Route, lines 59-62
getCustom404Route(manifestData) ==
    LET found == {i \in DOMAIN manifestData.routes :
                     manifestData.routes[i].route \in {"/404", "/404/"}}
    IN  IF found = {} THEN None
        ELSE Some(manifestData.routes[CHOOSE i \in found : \A j \in found : i <= j])

MatchedRoute(route, resolvedPathname) ==
    [kind |-> "matched", route |-> route, resolvedPathname |-> resolvedPathname]
SearchRejected(error) == [kind |-> "rejected", error |-> error]
\* line 143: the search gives undefined
NoRouteFound == [kind |-> "undefined"]

\* matchRoute of vite-plugin-astro-server/route.ts, lines 64-78: the matches
\* are collected and sorted
devMatchRoute ==
    /\ router.op = "devMatchRoute" /\ router.pc = "call"
    /\ router' = [router EXCEPT
           !.pc = "search",
           !.candidates = getSortedPreloadedMatches(
                              matchAllRoutes(router.pathname, manifest)),
           !.tried = <<>>, !.outcomes = <<>>]
    /\ RouterFrame

\* lines 79-104: one turn of the loop over the candidates
devResolveCandidate ==
    /\ router.op = "devMatchRoute" /\ router.pc = "search"
    /\ Len(router.tried) < Len(router.candidates)
    /\ LET maybeRoute == router.candidates[Len(router.tried) + 1]
       IN  \E o \in getParamsAndProps(maybeRoute) :
              LET turned == [router EXCEPT !.tried = Append(@, maybeRoute),
                                           !.outcomes = Append(@, o)]
              IN  router' =
                    IF o = "ok"
                    THEN [turned EXCEPT !.pc = "done",
                             !.result = Some(MatchedRoute(maybeRoute, router.pathname))]
                    ELSE IF Recoverable(o) THEN turned
                    ELSE [turned EXCEPT !.pc = "done",
                             !.result = Some(SearchRejected(o))]
    /\ RouterFrame

\* lines 107-143: no candidate resolved
devNoCandidate ==
    /\ router.op = "devMatchRoute" /\ router.pc = "search"
    /\ Len(router.tried) = Len(router.candidates)
    /\ router' =
         IF altPathname(router.pathname) # router.pathname
         THEN [router EXCEPT !.pathname = altPathname(router.pathname), !.pc = "call"]
         ELSE LET custom404 == getCustom404Route(manifest)
                  warned == [router EXCEPT !.warned = router.candidates # <<>>,
                                           !.pc = "done"]
              IN  IF custom404 # None
                  THEN [warned EXCEPT
                           !.result = Some(MatchedRoute(The(custom404), router.pathname))]
                  ELSE [warned EXCEPT !.result = Some(NoRouteFound)]
    /\ RouterFrame

NextRouter ==
    \/ matchCall
    \/ matchRouteCall
    \/ matchAllRoutesCall
    \/ devMatchRoute
    \/ devResolveCandidate
    \/ devNoCandidate

SpecRouter == RouterInit /\ [][NextRouter]_vars

RouterCalled(op) == router.op = op /\ router.pc = "done"
RouterResult == The(router.result)

\* The routes of the table the matcher can give for a pathname: those whose
\* pattern, or one of whose fallback routes, matches it.
Matching(pathname) ==
    {i \in DOMAIN manifest.routes :
        \/ PatternTest(manifest.routes[i], pathname)
        \/ pathname \in manifest.routes[i].fallbackRoutes}
FirstMatching(pathname) ==
    manifest.routes[CHOOSE i \in Matching(pathname) : \A j \in Matching(pathname) : i <= j]

\* C21: App.match returns none when the pathname is a known asset, when no
\* route of the table matches it, or when the first route that matches is
\* prerendered; otherwise it returns that first route.  It never returns a
\* prerendered route, and the route table stays as it was.
C21_MatchState ==
    RouterCalled("match") =>
        /\ RouterResult # None => /\ ~The(RouterResult).prerender
                                  /\ router.pathname \notin Assets
        /\ RouterResult = None <=>
               \/ router.pathname \in Assets
               \/ Matching(router.pathname) = {}
               \/ FirstMatching(router.pathname).prerender
        /\ RouterResult # None => The(RouterResult) = FirstMatching(router.pathname)

C21_Match == []C21_MatchState /\ [][manifest' = manifest]_vars

\* App.match has returned a server route that is not the first of the table,
\* for a pathname a prerendered route of the table matches as well.
C21_Witness ==
    /\ RouterCalled("match")
    /\ RouterResult # None
    /\ The(RouterResult) # manifest.routes[1]
    /\ \E i \in DOMAIN manifest.routes :
           manifest.routes[i].prerender /\ PatternTest(manifest.routes[i], router.pathname)

\* C22: when the error route found for the requested status is prerendered,
\* #renderError fetches the static document, /<status>.html when the route's
\* path ends with /<status> and /<status> otherwise, and renders nothing; the
\* Response it returns has the requested status and the fetched document's
\* body, whatever the statuses of the document and of the original Response.
C22_PrerenderedErrorPage ==
    (Done /\ errorArgs # None /\ PrerenderedErrorRoute(The(errorArgs))) =>
        LET a == The(errorArgs)
            path == Path(The(ErrorRouteOf(a)).route)
            last == IF path.segments = <<>> THEN "" ELSE path.segments[Len(path.segments)]
            document ==
                IF a.status = 404
                THEN IF last = "404" /\ ~path.slash THEN "/404.html" ELSE "/404"
                ELSE IF last = "500" /\ ~path.slash THEN "/500.html" ELSE "/500"
        IN  /\ trace[Len(trace)] = "fetch"
            /\ Count(trace, "fetch") = 1
            /\ ~ErrorPageRendered
            /\ Returns => /\ Final.status = a.status
                          /\ Final.body = document

\* C22 witness: a page answered 500, the route found for /500 is the
\* prerendered catch-all page, and the document fetched from /500 is returned
\* with status 500.
C22_Witness ==
    /\ Done /\ Returns
    /\ errorArgs # None
    /\ The(errorArgs).status = 500
    /\ The(errorArgs).response # None
    /\ ErrorRouteOf(The(errorArgs)) = Some(CatchAllRoute)
    /\ Final.status = 500
    /\ Final.body = "/500"

\* C23: when the table has no route for the error path, #renderError renders
\* and fetches nothing and returns a bodyless Response: the one with the
\* requested status when there is no original, else that one merged with the
\* original, which keeps every header of the original other than content-type
\* (the status is then the original's, unless that is 200).
C23_NoErrorRoute ==
    (Done /\ errorArgs # None /\ ErrorRouteOf(The(errorArgs)) = None) =>
        LET a == The(errorArgs)
        IN  /\ Returns
            /\ Final.body = ""
            /\ Final.sent
            /\ Count(trace, "fetch") = 0
            /\ Count(trace, "renderRoute(error)") = 0
            /\ Count(trace, "renderRoute(error, skipMiddleware)") = 0
            /\ a.response = None =>
                  Final.status = a.status /\ Final.headers = EmptyHeaders
            /\ a.response # None =>
                  /\ Final.status = IF The(a.response).status = 200 THEN a.status
                                    ELSE The(a.response).status
                  /\ \A n \in HeaderNames \ {"content-type"} :
                        Final.headers[n] = The(a.response).headers[n]

\* C23 witness: a page with a header set by its middleware answered 404, the
\* table has no /404 route, and the bodyless 404 carries that header.
C23_Witness ==
    /\ Done /\ Returns
    /\ errorArgs # None
    /\ ErrorRouteOf(The(errorArgs)) = None
    /\ The(errorArgs).response # None
    /\ The(The(errorArgs).response).headers["x-custom"] = <<"1">>
    /\ The(The(errorArgs).response).body # ""
    /\ Final.status = 404
    /\ Final.body = ""
    /\ Final.headers["x-custom"] = <<"1">>

\* C24: the render step of a fallback route yields a bodyless Response with
\* status 404 whatever unit it is given, also none; it never fails and never
\* yields the page of the route it stands for, and without middleware that
\* Response is what renderRoute returns.
C24_FallbackRenders404 ==
    (pipe.type = "fallback" /\ Rendered) =>
        /\ pipe.rendered = Some(Response(404, "", "", EmptyHeaders))
        /\ Len(EventsOf("render")) = 1
        /\ (PipeDone /\ pipe.slot = None) =>
              PipeResult = Returned(Response(404, "", "", EmptyHeaders))

\* C24 witness: a fallback route was rendered without a unit, and renderRoute
\* returned the 404.
C24_Witness ==
    /\ PipeDone
    /\ pipe.type = "fallback"
    /\ pipe.unit = "undefined"
    /\ pipe.slot = None
    /\ Rendered
    /\ PipeResult.kind = "response"
    /\ The(PipeResult.response).status = 404

\* What #tryRenderRoute resolved to in the call that is done: the outcome of
\* the render step, or of the slot's handler around it.
ChainResult ==
    IF pipe.slot = None THEN Returned(The(pipe.value))
    ELSE MiddlewareResult(pipe.nextCalled, pipe.value, pipe.rendered)

\* C25: an endpoint handler that is set is invoked at most once in a
\* renderRoute call, only for an endpoint route, and as the last thing the call
\* does: it is given what the endpoint, through the middleware, resolved to,
\* and what it returns or throws is the outcome of renderRoute.  A renderRoute
\* of an endpoint route returns a Response only out of the handler, so without
\* a handler it fails.
C25_EndpointHandler ==
    /\ Len(EventsOf("endpointHandler")) <= 1
    /\ pipe.type # "endpoint" => EventsOf("endpointHandler") = <<>>
    /\ EventsOf("endpointHandler") # <<>> =>
          /\ PipeDone
          /\ pipe.endpointHandler
          /\ pipe.log[Len(pipe.log)] = <<"endpointHandler">>
          /\ ChainResult.kind = "response"
          /\ PipeResult = IF The(ChainResult.response).headers["x-astro-response"]
                                = <<"Not-Found">>
                          THEN Threw("EndpointNotFoundError", ChainResult.response)
                          ELSE ChainResult
    /\ (PipeDone /\ pipe.type = "endpoint" /\ PipeResult.kind = "response") =>
          /\ pipe.endpointHandler
          /\ Len(EventsOf("endpointHandler")) = 1
    /\ (PipeDone /\ pipe.type = "endpoint" /\ ~pipe.endpointHandler) =>
          PipeResult.kind # "response"
    /\ (PipeDone /\ PipeResult.kind = "EndpointNotFoundError") =>
          Len(EventsOf("endpointHandler")) = 1

\* C25 witness: an endpoint answered through a middleware handler that passes
\* its Response on, and renderRoute returned what the endpoint handler made of
\* it.
C25_Witness ==
    /\ PipeDone
    /\ pipe.type = "endpoint"
    /\ pipe.slot # None
    /\ Given = <<"passes">>
    /\ Rendered
    /\ Len(EventsOf("endpointHandler")) = 1
    /\ PipeResult.kind = "response"
    /\ PipeResult.response = pipe.rendered

\* C26: a renderRoute call for a route whose type is none of page, fallback,
\* redirect and endpoint ends with an error as soon as the hooks have run: no
\* Response comes out of it, and no middleware handler, no render step and no
\* endpoint handler is invoked.
C26_UnknownTypeIsFatal ==
    (PipeRunning /\ pipe.type \notin {"page", "fallback", "redirect", "endpoint"}) =>
        /\ PipeDone
        /\ PipeResult.kind = "Error"
        /\ PipeResult.response = None
        /\ EventsOf("handler") = <<>>
        /\ EventsOf("render") = <<>>
        /\ EventsOf("endpointHandler") = <<>>
        /\ pipe.rendered = None /\ pipe.value = None

\* C26 witness: a route of an unknown type was given to a Pipeline with a
\* middleware, an endpoint handler and a hook, and the call failed after the
\* hook.
C26_Witness ==
    /\ PipeDone
    /\ pipe.type = "unknown"
    /\ pipe.unit = "component"
    /\ pipe.slot # None /\ Given # <<>>
    /\ pipe.endpointHandler
    /\ pipe.log = <<<<"hook", "annotate">>>>
    /\ PipeResult.kind = "Error"

\* C27 as stated: matchAllRoutes gives only routes whose pattern matches the
\* pathname, those without parameters before those with a dynamic or rest
\* segment; matchRoute gives the first of them, or none; the route table stays
\* as it was.
C27_FirstOfAllState ==
    /\ RouterCalled("matchAllRoutes") =>
          /\ \A i \in DOMAIN RouterResult : PatternTest(RouterResult[i], router.pathname)
          /\ \A i, j \in DOMAIN RouterResult :
                (IsStaticRoute(RouterResult[j]) /\ ~IsStaticRoute(RouterResult[i])) => j < i
    /\ RouterCalled("matchRoute") =>
          LET all == matchAllRoutes(router.pathname, manifest)
          IN  RouterResult = IF all = <<>> THEN None ELSE Some(all[1])

C27_MatcherState ==
    /\ RouterCalled("matchAllRoutes") =>
          /\ \A i \in DOMAIN RouterResult : PatternTest(RouterResult[i], router.pathname)
          /\ \A k \in DOMAIN manifest.routes :
                PatternTest(manifest.routes[k], router.pathname) =>
                   \E i \in DOMAIN RouterResult : RouterResult[i] = manifest.routes[k]
          /\ \A i, j \in DOMAIN RouterResult :
                (IsStaticRoute(RouterResult[j]) /\ ~IsStaticRoute(RouterResult[i])) => j < i
    /\ RouterCalled("matchRoute") =>
          LET all == matchAllRoutes(router.pathname, manifest)
              byFallback == \E k \in DOMAIN manifest.routes :
                                router.pathname \in manifest.routes[k].fallbackRoutes
          IN  /\ RouterResult = None <=> Matching(router.pathname) = {}
              /\ RouterResult # None => The(RouterResult) = FirstMatching(router.pathname)
              /\ ~byFallback => RouterResult = IF all = <<>> THEN None ELSE Some(all[1])

DeclaredAt(route) == CHOOSE k \in DOMAIN router.declared : router.declared[k] = route
Searching == router.op = "devMatchRoute" /\ router.pc \in {"search", "done"}

C29_SearchInOrder ==
    Searching =>
        LET n == Len(router.tried)
            last == router.outcomes[n]
            ended == router.pc = "done"
        IN  /\ n <= Len(router.candidates)
            /\ router.tried = SubSeq(router.candidates, 1, n)
            /\ Len(router.outcomes) = n
            /\ \A k \in 1..(n - 1) : router.outcomes[k] = "NoMatchingStaticPathFound"
            /\ (~ended /\ n > 0) => last = "NoMatchingStaticPathFound"
            /\ (n > 0 /\ last = "ok") =>
                  /\ ended
                  /\ router.result =
                        Some(MatchedRoute(router.candidates[n], router.pathname))
            /\ (n > 0 /\ last \notin {"ok", "NoMatchingStaticPathFound"}) =>
                  /\ ended
                  /\ router.result = Some(SearchRejected(last))
            /\ (ended /\ (n = 0 \/ last = "NoMatchingStaticPathFound")) =>
                  /\ n = Len(router.candidates)
                  /\ router.result =
                        IF getCustom404Route(manifest) = None
                        THEN Some(NoRouteFound)
                        ELSE Some(MatchedRoute(The(getCustom404Route(manifest)),
                                               router.pathname))

\* C29 witness: the first candidate had no static path for the pathname, the
\* second one resolved and was returned, and a third one was never resolved.
C29_Witness ==
    /\ Searching /\ router.pc = "done"
    /\ Len(router.candidates) >= 3
    /\ router.outcomes = <<"NoMatchingStaticPathFound", "ok">>
    /\ router.result = Some(MatchedRoute(router.candidates[2], router.pathname))

(***************************************************************************)
(* Repeated render calls on one App whose units, middleware, module loader *)
(* and static documents are deterministic: what one of them gave for its   *)
(* arguments once, it gives again.  history.loaded, history.rendered and   *)
(* history.fetched hold what was given so far, history.answers how each    *)
(* settled call was answered.                                              *)
(***************************************************************************)
MaxRepeats == 3

RepeatPathnames == {"/page", "/api"}

\* Route tables without error pages, with rendered and with prerendered ones.
RepeatManifests == {Manifest(k, k, FALSE) : k \in ErrorRouteKinds}

RepeatCalls ==
    {[pathname |-> p, method |-> "GET", style |-> "none", routeData |-> None,
      locals |-> None] : p \in RepeatPathnames}

\* The units and the middleware of the repeated calls: a unit throws or
\* answers with status 200; a middleware throws, gives the Response of its
\* continuation as it is, or answers with a redirect of its own.
RepeatOutcomes(outcomes) ==
    {o \in outcomes :
        o.kind = "response" =>
            /\ The(o.response).status \in {200, 302}
            /\ The(o.response).headers["x-custom"] = <<>>
            /\ ~The(o.response).immutable}

\* What given holds for the arguments is the outcome, if it holds anything.
Determined(given, arguments, outcome) ==
    \A g \in given : g.arguments = arguments => g.outcome = outcome
Gave(arguments, outcome) == [arguments |-> arguments, outcome |-> outcome]

\* The arguments of a Pipeline.renderRoute call: the route, the status and
\* the request of the render context, and the middleware it runs with.
RenderArguments(route, status) ==
    [route |-> route, status |-> status, request |-> req, middleware |-> running]

\* What the caller of render sees of the settled call.
Answer ==
    IF The(result).kind = "response"
    THEN [request |-> req, kind |-> "response",
          status |-> The(The(result).response).status,
          body |-> The(The(result).response).body]
    ELSE [request |-> req, kind |-> "rejected", status |-> 0,
          body |-> The(result).error]

RepeatInit ==
    /\ manifest \in RepeatManifests
    /\ AppConstructed
    /\ MergeIdle
    /\ ComponentsIdle

RepeatFrame == UNCHANGED <<merge, flights, pipe, helper, router, dev>>

repeatRender ==
    /\ served < MaxRepeats
    /\ \E call \in RepeatCalls : renderStep(call)
    /\ UNCHANGED history
    /\ RepeatFrame

repeatLoadModule ==
    /\ pc = "load"
    /\ \E o \in LoadOutcomes(The(routeData)) :
          /\ Determined(history.loaded, The(routeData), o)
          /\ loadModuleStep(o)
          /\ history' = [history EXCEPT !.loaded = @ \cup {Gave(The(routeData), o)}]
    /\ RepeatFrame

repeatRenderRouteSettles ==
    /\ pc = "renderRoute"
    /\ LET status == getDefaultStatusCode(The(routeData), req.pathname)
           arguments == RenderArguments(The(routeData), status)
       IN  \E o \in RepeatOutcomes(renderRoute(The(routeData), status, req.method,
                                                 running)) :
              /\ Determined(history.rendered, arguments, o)
              /\ renderRouteSettlesStep(o)
              /\ history' = [history EXCEPT !.rendered = @ \cup {Gave(arguments, o)}]
    /\ RepeatFrame

repeatRenderErrorNoRoute ==
    /\ renderErrorNoRouteStep
    /\ UNCHANGED history
    /\ RepeatFrame

repeatRenderErrorPrerendered ==
    /\ pc = "renderError"
    /\ errorRouteData(The(errorArgs).status, manifest) # None
    /\ \E o \in fetch(errorPageURL) :
          /\ Determined(history.fetched, errorPageURL, o)
          /\ renderErrorPrerenderedStep(o)
          /\ history' = [history EXCEPT !.fetched = @ \cup {Gave(errorPageURL, o)}]
    /\ RepeatFrame

repeatRenderErrorLoad ==
    /\ pc = "renderError"
    /\ errorRouteData(The(errorArgs).status, manifest) # None
    /\ LET route == The(errorRouteData(The(errorArgs).status, manifest))
       IN  \E o \in LoadOutcomes(route) :
              /\ Determined(history.loaded, route, o)
              /\ renderErrorLoadStep(o)
              /\ history' = [history EXCEPT !.loaded = @ \cup {Gave(route, o)}]
    /\ RepeatFrame

repeatErrorRenderRouteSettles ==
    /\ pc = "errorRenderRoute"
    /\ LET route == The(errorRouteData(The(errorArgs).status, manifest))
           arguments == RenderArguments(route, The(errorArgs).status)
       IN  \E o \in RepeatOutcomes(renderRoute(route, The(errorArgs).status,
                                                 req.method, running)) :
              /\ Determined(history.rendered, arguments, o)
              /\ errorRenderRouteSettlesStep(o)
              /\ history' = [history EXCEPT !.rendered = @ \cup {Gave(arguments, o)}]
    /\ RepeatFrame

repeatSettled ==
    /\ settledStep
    /\ history' = [history EXCEPT !.answers = @ \cup {Answer}]
    /\ RepeatFrame

NextRepeat ==
    \/ repeatRender
    \/ repeatLoadModule
    \/ repeatRenderRouteSettles
    \/ repeatRenderErrorNoRoute
    \/ repeatRenderErrorPrerendered
    \/ repeatRenderErrorLoad
    \/ repeatErrorRenderRouteSettles
    \/ repeatSettled

SpecRepeat == RepeatInit /\ [][NextRepeat]_vars

\* C30: two render calls with the same request on one App, whose route table
\* stays as it is and whose units and middleware are deterministic, are
\* answered with responses of the same status and the same body, whatever
\* other requests the App served before or between them.
C30_RenderIsIdempotent ==
    \A x, y \in history.answers :
          (x.request = y.request /\ x.kind = "response" /\ y.kind = "response") =>
              (x.status = y.status /\ x.body = y.body)

\* The position in trace of the start of the primary render, of the first
\* render of the error page, of the render of the error page without
\* middleware and of the catch clause of #renderError; 0 when it is not there.
PrimaryStart == First(trace, "renderRoute", 1)
ErrorStart == First(trace, "renderRoute(error)", 1)
RetryStart == First(trace, "renderRoute(error, skipMiddleware)", 1)
CatchAt == First(trace, "catch", 1)

\* C31: within one call the renders follow one another.  While the primary
\* renderRoute is pending no #renderError has been entered; a render of the
\* error page starts only once the primary renderRoute, if there was one, has
\* resolved or thrown; and the render without middleware starts only from the
\* catch clause, after the first render of the error page, if it was started,
\* has thrown.
C31_RendersFollowOneAnother ==
    /\ pc = "renderRoute" =>
          /\ primary = None /\ errorArgs = None
          /\ Count(trace, "renderError") = 0
          /\ ErrorStart = 0 /\ RetryStart = 0
    /\ (ErrorStart # 0 \/ RetryStart # 0) =>
          /\ PrimaryStart # 0 => primary # None
          /\ PrimaryStart = 0 => routeData = None
          /\ PrimaryStart < (IF ErrorStart # 0 THEN ErrorStart ELSE RetryStart)
    /\ RetryStart # 0 =>
          /\ CatchAt # 0 /\ CatchAt < RetryStart
          /\ ErrorStart < CatchAt
          /\ trace[RetryStart - 2] = "catch"
          /\ The(errorArgs).skipMiddleware
    /\ (pc = "errorRenderRoute" /\ ~The(errorArgs).skipMiddleware) => CatchAt = 0

\* C31 witness: the primary render threw, the first render of the error page
\* threw as well, and the render without middleware is pending.
C31_Witness ==
    /\ pc = "errorRenderRoute"
    /\ PrimaryStart # 0 /\ The(primary).kind = "Error"
    /\ ErrorStart # 0 /\ RetryStart # 0

(***************************************************************************)
(* The RenderContext of a render.  render creates one for the matched      *)
(* route (lines 200-206) and hands it to Pipeline.renderRoute; #renderError*)
(* creates another one for the error route, in each of its attempts        *)
(* (lines 356-362), and hands that one to its own renderRoute.  Both are   *)
(* locals of the call.                                                     *)
(***************************************************************************)
\* The RenderContexts handed to Pipeline.renderRoute so far in the call in
\* progress: each renderRoute is given the context created just before it.
RenderContexts ==
    Count(trace, "renderRoute") + ErrorRenders

\* C32 as stated: one RenderContext is created per render call, the error
\* fallback and its retry included.
C32_OneRenderContextPerCall ==
    /\ RenderContexts <= 1
    /\ (pc = "done" /\ PrimaryStart # 0) => RenderContexts = 1

\* C32, amended: every render of a call has a RenderContext of its own. A call
\* creates at most one for the matched route, one for the error route and one
\* more for the render of the error route without middleware, so never more
\* than three; a second one is created only in the error fallback and a third
\* only after the catch clause; none is left once the call has returned.
C32_OneRenderContextPerRender ==
    /\ Count(trace, "renderRoute") <= 1
    /\ Count(trace, "renderRoute(error)") <= 1
    /\ Count(trace, "renderRoute(error, skipMiddleware)") <= 1
    /\ RenderContexts <= 3
    /\ RenderContexts > 1 => Count(trace, "renderError") >= 1
    /\ RenderContexts = 3 => (Catches >= 1 /\ The(errorArgs).skipMiddleware)
    /\ (routeData = None /\ pc # "idle") => Count(trace, "renderRoute") = 0
    /\ pc = "idle" => RenderContexts = 0

C32_Witness ==
    /\ pc = "done"
    /\ RenderContexts = 3
    /\ The(result).kind = "response"

(***************************************************************************)
(* The dev server's handler: handleRequest of                              *)
(* vite-plugin-astro-server/request.ts reads the body of the incoming      *)
(* request, searches the route and calls handleRoute of route.ts, which    *)
(* renders the route through the Pipeline and writes the response.  One    *)
(* request is followed from its arrival to the response written.           *)
(***************************************************************************)
MaxChunks == 2

DevMethods == {"GET", "HEAD", "POST"}
DevPathnames == {"/", "/page", "/page.html", "/api", "/es/page", "/blog/404", "/missing"}

\* The parts of a request body as the 'data' events deliver them.
Chunks == {<<1>>, <<2, 3>>}
DevStreams == SeqsUpTo(Chunks, MaxChunks)

\* Buffer.concat(bytes)
RECURSIVE BufferConcat(_)
BufferConcat(bytes) ==
    IF bytes = <<>> THEN <<>> ELSE Head(bytes) \o BufferConcat(Tail(bytes))

\* config.i18n.locales: a code, or an object with a path and codes
LocaleCode(code) == [kind |-> "string", code |-> code, path |-> ""]
LocaleObject(path, code) == [kind |-> "object", code |-> code, path |-> path]
DevLocales == <<LocaleCode("es"), LocaleObject("blog", "en")>>

\* normalizeTheLocale of i18n/index: the codes of the model are in normal form
normalizeTheLocale(locale) == locale

\* route.ts, lines 195-214
pathNameHasLocale(pathname, locales) ==
    \E i \in DOMAIN Path(pathname).segments :
        LET segment == Path(pathname).segments[i]
        IN  \E j \in DOMAIN locales :
                IF locales[j].kind = "string"
                THEN normalizeTheLocale(locales[j].code) = normalizeTheLocale(segment)
                ELSE locales[j].path = segment

\* The route tables of the dev server, sorted as createRouteManifest sorts them.
DevTables ==
    {createRouteManifest(declared) :
        declared \in {<<PageRoute, EndpointRoute>>,
                      <<PageRoute, EndpointRoute, ErrorRoute(404, FALSE)>>,
                      <<PageRoute, AStaticRest>>,
                      <<PageRoute, EndpointRoute, AStaticRest, ErrorRoute(404, FALSE)>>}}

\* matchRoute of route.ts, lines 64-142, as the set of its possible results:
\* the candidates are tried in order, the first that resolves is returned.
RECURSIVE devSearch(_, _, _)
devSearch(candidates, pathname, manifestData) ==
    IF candidates # <<>>
    THEN UNION {IF o = "ok" THEN {MatchedRoute(Head(candidates), pathname)}
                ELSE IF Recoverable(o)
                THEN devSearch(Tail(candidates), pathname, manifestData)
                ELSE {SearchRejected(o)}
                : o \in getParamsAndProps(Head(candidates))}
    ELSE IF altPathname(pathname) # pathname
    THEN devSearch(getSortedPreloadedMatches(
                       matchAllRoutes(altPathname(pathname), manifestData)),
                   altPathname(pathname), manifestData)
    ELSE LET custom404 == getCustom404Route(manifestData)
         IN  IF custom404 # None THEN {MatchedRoute(The(custom404), pathname)}
             ELSE {NoRouteFound}

devMatchRouteResults(pathname, manifestData) ==
    devSearch(getSortedPreloadedMatches(matchAllRoutes(pathname, manifestData)),
              pathname, manifestData)

\* getStatus, route.ts lines 479-483
getStatus(matchedRoute) ==
    IF matchedRoute.kind = "undefined" THEN Some(404)
    ELSE IF matchedRoute.route.route = "/404" THEN Some(404)
    ELSE IF matchedRoute.route.route = "/500" THEN Some(500)
    ELSE None

\* has404Route, route.ts lines 485-487
has404Route(manifestData) ==
    \E i \in DOMAIN manifestData.routes : manifestData.routes[i].route = "/404"

\* route.ts, lines 225-237: the route made up for a pathname of a locale
SyntheticFallbackRoute == RouteData("", "fallback", FALSE, {})

DevResponse(status, body) == [status |-> status, body |-> body]
DevStatuses == {200, 302, 404, 500}

\* What pipeline.renderRoute gives for a route: a response of the unit (or of
\* the middleware) with the unit's body, or a throw.
DevRenderOutcomes(route) ==
    {[kind |-> "response", response |-> DevResponse(st, route.route)] : st \in DevStatuses}
    \cup {[kind |-> "threw"]}

Written(by, response) == Some([by |-> by, status |-> response.status, body |-> response.body])

\* handle404Response of response.ts: the dev server's own 404 page
handle404Response == Written("handle404Response", DevResponse(404, "notFoundTemplate"))

\* request.ts, lines 87-91: onError of runWithErrorHandling
handle500Response == Written("handle500Response", DevResponse(500, "errorOverlay"))

NoDevRequest ==
    [method |-> "", pathname |-> "", sent |-> <<>>, stream |-> <<>>, bytes |-> <<>>,
     body |-> None, matchedRoute |-> NoRouteFound, status |-> None, options |-> None,
     request |-> None, route |-> None, calls |-> 0, running |-> <<>>,
     rendered |-> <<>>,
     trace |-> <<>>, written |-> None]

DevInit ==
    /\ \E routes \in DevTables, i18n \in BOOLEAN :
           manifest = [routes |-> routes, i18n |-> i18n]
    /\ \E middleware \in BOOLEAN :
           dev = NoDevRequest @@ [pc |-> "idle", middleware |-> middleware, slot |-> <<>>]
    /\ AppConstructed
    /\ MergeIdle
    /\ flights = NoFlights
    /\ pipe = PipeIdle
    /\ helper = HelperIdle
    /\ router = RouterIdle
    /\ history = HistoryIdle

DevFrame == UNCHANGED <<merge, flights, pipe, helper, router, history, appVars>>

\* A bug variant of handleRequestStep: the body is read for GET and HEAD too.
handleRequestStepReadAll(method, pathname, stream) ==
    dev' = [NoDevRequest @@ dev EXCEPT
               !.pc = "reading",
               !.method = method, !.pathname = pathname,
               !.sent = stream, !.stream = stream]

\* handleRequest, request.ts lines 22-58: up to the await of the body
handleRequestStep(method, pathname, stream) ==
    dev' = [NoDevRequest @@ dev EXCEPT
               !.pc = IF method \in {"GET", "HEAD"} THEN "matchRoute" ELSE "reading",
               !.method = method, !.pathname = pathname,
               !.sent = stream, !.stream = stream]

handleRequest ==
    /\ dev.pc = "idle"
    /\ \E method \in DevMethods, pathname \in DevPathnames, stream \in DevStreams :
           handleRequestStep(method, pathname, stream)
    /\ DevFrame

\* request.ts, lines 61-63: a part of the body arrives
onData ==
    /\ dev.pc = "reading"
    /\ dev.stream # <<>>
    /\ dev' = [dev EXCEPT !.bytes = Append(@, Head(dev.stream)),
                          !.stream = Tail(@),
                          !.trace = Append(@, "data")]
    /\ DevFrame

\* request.ts, lines 64-66: the stream has ended, the body is put together
onEnd ==
    /\ dev.pc = "reading"
    /\ dev.stream = <<>>
    /\ dev' = [dev EXCEPT !.body = Some(BufferConcat(dev.bytes)),
                          !.trace = Append(@, "end"),
                          !.pc = "matchRoute"]
    /\ DevFrame

\* request.ts, lines 68-93: run() searches the route; a throw goes to onError
searchRoute ==
    /\ dev.pc = "matchRoute"
    /\ \E found \in devMatchRouteResults(dev.pathname, manifest) :
           dev' = IF found.kind = "rejected"
                  THEN [dev EXCEPT !.trace = Append(@, "matchRoute"),
                                   !.written = handle500Response,
                                   !.pc = "idle"]
                  ELSE [dev EXCEPT !.trace = Append(@, "matchRoute"),
                                   !.matchedRoute = found,
                                   !.pathname = IF found.kind = "matched"
                                                THEN found.resolvedPathname ELSE @,
                                   !.status = getStatus(found),
                                   !.calls = 1,
                                   !.pc = "handleRoute"]
    /\ DevFrame

\* route.ts, lines 309-325: the middleware slot as configured for the render
DevMiddleware(i18n, onRequestLoaded, slot) ==
    IF i18n
    THEN IF onRequestLoaded THEN <<"i18n", "onRequest">> ELSE <<"i18n">>
    ELSE IF onRequestLoaded THEN <<"onRequest">> ELSE slot

\* route.ts, lines 309-327: what is called on the Pipeline before and for the render
DevPipelineCalls(i18n, onRequestLoaded) ==
    (IF i18n \/ onRequestLoaded THEN <<"setMiddlewareFunction">> ELSE <<>>)
    \o (IF i18n THEN <<"onBeforeRenderRoute">> ELSE <<>>)
    \o <<"renderRoute">>

\* route.ts, lines 309-327, for the request and the route decided before
StartRender(request, route, options) ==
    [dev EXCEPT !.request = Some(request),
                !.route = Some(route),
                !.options = options,
                !.slot = DevMiddleware(manifest.i18n, dev.middleware, @),
                !.running = DevMiddleware(manifest.i18n, dev.middleware, dev.slot),
                !.trace = @ \o <<"loadMiddleware", "createRenderContext">>
                            \o DevPipelineCalls(manifest.i18n, dev.middleware),
                !.pc = "renderRoute"]

\* A bug variant of NoRouteIs404: the made-up route is rendered for every
\* pathname that matched no route.
NoRouteIs404Never(pathname, i18n) == ~i18n

\* route.ts, lines 176-181 and 192-218, 248-250: no route matched and the
\* pathname is not one of a locale
NoRouteIs404(pathname, i18n) ==
    \/ ~i18n
    \/ ~pathNameHasLocale(pathname, DevLocales) /\ pathname # "/"

\* handleRoute, route.ts lines 158-327: up to the await of renderRoute
handleRoute ==
    /\ dev.pc = "handleRoute"
    /\ dev' =
         IF dev.matchedRoute.kind = "undefined"
         THEN IF NoRouteIs404(dev.pathname, manifest.i18n)
              THEN [dev EXCEPT !.written = handle404Response,
                               !.trace = @ \o (IF manifest.i18n THEN <<"loadMiddleware">>
                                               ELSE <<>>),
                               !.pc = "idle"]
              ELSE StartRender([method |-> "GET", body |-> None],
                               SyntheticFallbackRoute, None)
         ELSE StartRender([method |-> dev.method, body |-> dev.body],
                          dev.matchedRoute.route, Some(dev.matchedRoute.route))
    /\ DevFrame

\* A bug variant of Redispatch: every 404 is handled again with the 404 route.
RedispatchAlways(response, fourOhFourRoute, options) ==
    /\ response.status = 404
    /\ has404Route(manifest)

\* route.ts, lines 340-342: whether the request is handled again
Redispatch(response, fourOhFourRoute, options) ==
    /\ response.status = 404
    /\ has404Route(manifest)
    /\ options # None
    /\ (IF fourOhFourRoute.kind = "matched" THEN Some(fourOhFourRoute.route) ELSE None)
           # options

\* route.ts, lines 357-378: the response is written
WriteResponse(route, status, response) ==
    IF route.type = "endpoint" THEN Written("writeWebResponse", response)
    ELSE IF response.status < 400 /\ response.status >= 300
    THEN Written("writeSSRResult", response)
    ELSE IF status # None /\ response.status # The(status) /\ The(status) \in {404, 500}
    THEN Written("writeSSRResult", DevResponse(The(status), response.body))
    ELSE Written("writeSSRResult", response)

\* route.ts, lines 327-379: renderRoute has settled
devRenderRouteSettles ==
    /\ dev.pc = "renderRoute"
    /\ \E o \in DevRenderOutcomes(The(dev.route)) :
          IF o.kind = "threw"
          THEN dev' = [dev EXCEPT !.written = handle500Response, !.pc = "idle"]
          ELSE LET seen == [dev EXCEPT !.rendered = Append(@,
                                   [route |-> The(dev.route), response |-> o.response])]
               IN  IF o.response.status = 404 /\ has404Route(manifest)
                   THEN \E fourOhFourRoute \in devMatchRouteResults("/404", manifest) :
                          dev' =
                            IF fourOhFourRoute.kind = "rejected"
                            THEN [seen EXCEPT !.trace = Append(@, "matchRoute"),
                                                 !.written = handle500Response,
                                                 !.pc = "idle"]
                            ELSE IF Redispatch(o.response, fourOhFourRoute, dev.options)
                            THEN [seen EXCEPT !.trace = Append(@, "matchRoute"),
                                                 !.matchedRoute = fourOhFourRoute,
                                                 !.status = Some(404),
                                                 !.calls = @ + 1,
                                                 !.pc = "handleRoute"]
                            ELSE [seen EXCEPT !.trace = Append(@, "matchRoute"),
                                                 !.written = WriteResponse(The(dev.route),
                                                                 dev.status, o.response),
                                                 !.pc = "idle"]
                   ELSE dev' = [seen EXCEPT !.written = WriteResponse(The(dev.route),
                                                               dev.status, o.response),
                                               !.pc = "idle"]
    /\ DevFrame

NextDev ==
    \/ handleRequest
    \/ onData
    \/ onEnd
    \/ searchRoute
    \/ handleRoute
    \/ devRenderRouteSettles

SpecDev == DevInit /\ [][NextDev]_vars

\* The request of the dev handler has got past the reading of its body.
DevStarted == dev.method # "" /\ (dev.pc \in {"matchRoute", "handleRoute", "renderRoute"}
                                    \/ dev.written # None)
DevWork == {"matchRoute", "loadMiddleware", "createRenderContext",
            "setMiddlewareFunction", "onBeforeRenderRoute", "renderRoute"}

\* C33: the dev handler buffers the body before anything else. For a method
\* other than GET and HEAD the route search, the configuration of the
\* middleware and the render come after the 'end' event of the request, every
\* part has arrived by then, and the body handed on is the parts put together
\* in the order they arrived; the Request of a matched route carries that
\* body. For GET and HEAD nothing is read and there is no body.
C33_BodyBufferedFirst ==
    /\ dev.pc = "reading" =>
          /\ dev.method \notin {"GET", "HEAD"}
          /\ dev.body = None
          /\ \A i \in DOMAIN dev.trace : dev.trace[i] = "data"
          /\ dev.bytes \o dev.stream = dev.sent
    /\ (DevStarted /\ dev.method \notin {"GET", "HEAD"}) =>
          /\ dev.stream = <<>> /\ dev.bytes = dev.sent
          /\ dev.body = Some(BufferConcat(dev.sent))
          /\ First(dev.trace, "end", 1) = Len(dev.sent) + 1
          /\ \A i \in DOMAIN dev.trace :
                 /\ dev.trace[i] = "data" => i < First(dev.trace, "end", 1)
                 /\ dev.trace[i] \in DevWork => i > First(dev.trace, "end", 1)
          /\ (dev.request # None /\ dev.options # None) =>
                 The(dev.request).body = Some(BufferConcat(dev.sent))
    /\ (DevStarted /\ dev.method \in {"GET", "HEAD"}) =>
          /\ dev.body = None /\ dev.bytes = <<>> /\ dev.stream = dev.sent
          /\ \A i \in DOMAIN dev.trace : dev.trace[i] \notin {"data", "end"}
          /\ dev.request # None => The(dev.request).body = None

C33_Witness ==
    /\ dev.pc = "renderRoute"
    /\ dev.method = "POST"
    /\ dev.sent = <<<<2, 3>>, <<1>>>>
    /\ The(dev.request).body = Some(<<2, 3, 1>>)
    /\ dev.trace[3] = "end"

\* The dev handler has written the response of the request.
DevWritten == dev.pc = "idle" /\ dev.written # None
FourOhFour == ErrorRoute(404, FALSE)

\* C34: a 404 is handled again with the 404 route, once. When a render gives a
\* response of status 404 and the table has a /404 route that is not the route
\* just rendered, handleRoute is called again with the /404 route; what is
\* written then is the body of the 404 page with status 404, or the 404 page's
\* own response when that is a redirect. The 404 page is rendered at most once
\* for a request: handleRoute is entered at most twice.
C34_NotFoundRedispatchedOnce ==
    /\ dev.calls <= 2
    /\ Len(dev.rendered) <= dev.calls
    /\ dev.calls = 2 =>
          /\ has404Route(manifest)
          /\ dev.rendered[1].response.status = 404
          /\ dev.rendered[1].route # FourOhFour
          /\ dev.matchedRoute = MatchedRoute(FourOhFour, "/404")
          /\ dev.status = Some(404)
    /\ (Len(dev.rendered) >= 1 /\ dev.rendered[1].response.status = 404
        /\ has404Route(manifest) /\ dev.rendered[1].route # FourOhFour) =>
          /\ dev.calls = 2
          /\ Len(dev.rendered) = 2 =>
                /\ dev.rendered[2].route = FourOhFour
                /\ DevWritten
                /\ LET page == dev.rendered[2].response
                   IN  IF page.status >= 300 /\ page.status < 400
                       THEN The(dev.written) = [by |-> "writeSSRResult",
                                                status |-> page.status, body |-> page.body]
                       ELSE The(dev.written) = [by |-> "writeSSRResult",
                                                status |-> 404, body |-> "/404"]

C34_Witness ==
    /\ DevWritten
    /\ dev.calls = 2 /\ Len(dev.rendered) = 2
    /\ dev.rendered[1].route = EndpointRoute
    /\ dev.rendered[2].response.status = 200
    /\ The(dev.written).status = 404 /\ The(dev.written).body = "/404"

\* handleRoute has dealt with a request whose pathname matched no route.
NoMatchHandled ==
    dev.calls >= 1 /\ dev.matchedRoute.kind = "undefined" /\ dev.pc # "handleRoute"
PipelineCalls == {"setMiddlewareFunction", "onBeforeRenderRoute", "renderRoute"}
PipelineInvoked == \E i \in DOMAIN dev.trace : dev.trace[i] \in PipelineCalls
\* The pathname is "/" or has a segment that is a configured locale.
LocalePathname ==
    \/ dev.pathname = "/"
    \/ \E i \in DOMAIN Path(dev.pathname).segments :
           Path(dev.pathname).segments[i] \in {"es", "blog"}

\* C35: a pathname that matches no route. Without i18n the dev server's 404 is
\* written and nothing is called on the Pipeline. With i18n the same holds
\* unless the pathname is "/" or has a segment that is a configured locale;
\* then, and only then, a route of type fallback is made up and rendered
\* through the Pipeline, the locale middleware being the first in the slot.
C35_NoRouteInDev ==
    /\ (NoMatchHandled /\ ~(manifest.i18n /\ LocalePathname)) =>
          /\ dev.written = handle404Response
          /\ dev.pc = "idle"
          /\ ~PipelineInvoked
          /\ dev.rendered = <<>> /\ dev.route = None
    /\ (NoMatchHandled /\ manifest.i18n /\ LocalePathname) =>
          /\ dev.route = Some(SyntheticFallbackRoute)
          /\ The(dev.route).type = "fallback"
          /\ dev.written # handle404Response
          /\ Count(dev.trace, "renderRoute") = 1
          /\ Count(dev.trace, "setMiddlewareFunction") = 1
          /\ First(dev.trace, "setMiddlewareFunction", 1) < First(dev.trace, "renderRoute", 1)
          /\ dev.running # <<>> /\ dev.running[1] = "i18n"
    /\ dev.route = Some(SyntheticFallbackRoute) =>
          /\ dev.matchedRoute.kind = "undefined"
          /\ manifest.i18n /\ LocalePathname

C35_Witness ==
    /\ NoMatchHandled
    /\ dev.pc = "renderRoute"
    /\ dev.pathname = "/es/page"
    /\ dev.route = Some(SyntheticFallbackRoute)
    /\ dev.running = <<"i18n", "onRequest">>

\* C36: what is not an error passes through. The Response of the primary render
\* of a page or redirect route whose status is neither 404 nor 500 is the
\* Response render returns, with its status, headers and body, and no error
\* page is rendered and no #renderError called; the Response of an endpoint is
\* returned as it is whatever its status, and an endpoint is in the error
\* fallback only when its render threw.
C36_PassThrough ==
    /\ (PrimaryReturned /\ The(routeData).type \in {"page", "redirect"}
        /\ PrimaryResponse.status \notin STATUS_CODES) =>
          /\ pc = "done" /\ Returns
          /\ Final.status = PrimaryResponse.status
          /\ Final.headers = PrimaryResponse.headers
          /\ Final.body = PrimaryResponse.body
          /\ Final.statusText = PrimaryResponse.statusText
          /\ errorArgs = None
          /\ ErrorRenders = 0 /\ Count(trace, "renderError") = 0 /\ Count(trace, "fetch") = 0
    /\ (PrimaryReturned /\ The(routeData).type = "endpoint") =>
          /\ pc = "done" /\ Returns
          /\ Final = PrimaryResponse
          /\ errorArgs = None
          /\ ErrorRenders = 0 /\ Count(trace, "renderError") = 0 /\ Count(trace, "fetch") = 0
    /\ (primary # None /\ The(routeData).type = "endpoint" /\ errorArgs # None) =>
          The(primary).kind \in {"Error", "EndpointNotFoundError"}

C36_Witness ==
    /\ pc = "done"
    /\ PrimaryReturned
    /\ The(routeData).type = "page"
    /\ running # <<>>
    /\ PrimaryResponse.status = 302
    /\ Final.status = 302 /\ Final.body = PrimaryResponse.body

\* A unit (a page, an endpoint or an error page) has been given to
\* Pipeline.renderRoute in the call in progress.
UnitRendered == Count(trace, "renderRoute") + ErrorRenders > 0

\* C37: the locals are attached to the request before any unit is rendered for
\* it, the 404 page of a pathname that matches no route included: whenever a
\* unit has been given to renderRoute, the request carries the caller's locals
\* or the empty object.
C37_LocalsAttachedBeforeRender ==
    UnitRendered => req.locals \in {"{}", "locals"}

\* render(request) and render(request, {}) for a GET of the pathname
PlainCall(pathname, style) ==
    [pathname |-> pathname, method |-> "GET", style |-> style, routeData |-> None,
     locals |-> None]

\* C38: an options object with neither routeData nor locals is no options at
\* all: whatever render(request, {}) does to the App and to the call,
\* render(request) does for the same request.
C38_EmptyOptionsIsNoOptions ==
    [][\A pathname \in {"/page"} :
           renderStep(PlainCall(pathname, "emptyOptions"))
               => renderStep(PlainCall(pathname, "none"))]_vars

\* C39: the deprecation warning is given at most once in the life of an App,
\* and only by a call that passes routeData or locals positionally: a call
\* with an options object or without a second argument never gives it.
C39_WarnedOnceByPositionalOnly ==
    /\ [](warnings <= 1 /\ (warningShown <=> warnings = 1))
    /\ [][warnings' # warnings =>
             \E call \in RenderCalls(manifest) :
                 /\ call.style = "positional"
                 /\ call.routeData # None \/ call.locals # None
                 /\ renderStep(call)]_vars

\* The pathname given to removeBase lies under the base: it is the base
\* without its trailing slash followed by a path that starts with a slash.
UnderBase(base, pathname) ==
    startsWith(pathname, baseWithoutTrailingSlash(base) \o <<"/">>)

\* C40: removeBase strips the base at a segment boundary only. For a pathname
\* that is the base (without its trailing slash) followed by a path p,
\* removeBase and then prependForwardSlash give p; a pathname that is neither
\* the base nor under it, one that merely starts with the characters of the
\* base included, is returned as it is.
C40_RemoveBaseAtSegmentBoundary ==
    (helper.fn = "removeBase" /\ helper.result # None) =>
        LET base == helper.route.base
            pathname == helper.pathname
            removed == The(helper.result)
        IN  /\ UnderBase(base, pathname) =>
                  prependForwardSlash(removed)
                      = slice(pathname, Len(baseWithoutTrailingSlash(base)))
            /\ (~UnderBase(base, pathname)
                /\ pathname # baseWithoutTrailingSlash(base)) => removed = pathname

====
